---- MODULE Spec2Model ----
(***************************************************************************)
(* Model of the table-analytics pipeline of sqope:                         *)
(*   app/services/query_router.py   (detect_type, answer_query)            *)
(*   app/services/table_analytics.py (analyze_table and its helpers)       *)
(*   app/services/sql_templates.py  (build_select_query)                   *)
(*                                                                         *)
(* Python str values are sequences of one-character strings, so that the   *)
(* regular expressions, lower(), upper(), replace() and split() of the     *)
(* source are computed character by character.  Python dicts are functions *)
(* whose domain is the set of keys present.  A value whose Python type     *)
(* varies (filter values, bind parameters, result cells) is a record       *)
(* [k |-> type tag, v |-> payload].                                        *)
(***************************************************************************)
EXTENDS Integers, Sequences, FiniteSets, TLC

(***************************************************************************)
(* Characters and strings                                                  *)
(***************************************************************************)
LowerChars == <<"a","b","c","d","e","f","g","h","i","j","k","l","m",
                "n","o","p","q","r","s","t","u","v","w","x","y","z">>
UpperChars == <<"A","B","C","D","E","F","G","H","I","J","K","L","M",
                "N","O","P","Q","R","S","T","U","V","W","X","Y","Z">>
DigitChars == <<"0","1","2","3","4","5","6","7","8","9">>

Range(s) == { s[i] : i \in DOMAIN s }

IsDigit(c) == c \in Range(DigitChars)
IsLowerCh(c) == c \in Range(LowerChars)
IsUpperCh(c) == c \in Range(UpperChars)
\* \w of Python's re module (ASCII letters, digits, underscore)
IsWordCh(c) == IsDigit(c) \/ IsLowerCh(c) \/ IsUpperCh(c) \/ c = "_"

LowerCh(c) == IF IsUpperCh(c)
              THEN LowerChars[CHOOSE i \in DOMAIN UpperChars : UpperChars[i] = c]
              ELSE c
UpperCh(c) == IF IsLowerCh(c)
              THEN UpperChars[CHOOSE i \in DOMAIN LowerChars : LowerChars[i] = c]
              ELSE c

\* str.lower(), str.upper()
LowerStr(s) == [i \in DOMAIN s |-> LowerCh(s[i])]
UpperStr(s) == [i \in DOMAIN s |-> UpperCh(s[i])]

\* s[i:i+len(sub)] == sub, 1-based i
MatchAt(s, sub, i) ==
    /\ i >= 1
    /\ i + Len(sub) - 1 <= Len(s)
    /\ \A j \in 1..Len(sub) : s[i + j - 1] = sub[j]

\* sub in s
Contains(s, sub) == \E i \in 1..(Len(s) + 1) : MatchAt(s, sub, i)

\* s.startswith(sub)
StartsWith(s, sub) == MatchAt(s, sub, 1)

\* str.replace(old, new), old non-empty: leftmost non-overlapping occurrences
RECURSIVE ReplaceFrom(_, _, _, _)
ReplaceFrom(s, old, new, i) ==
    IF i > Len(s) THEN <<>>
    ELSE IF MatchAt(s, old, i)
         THEN new \o ReplaceFrom(s, old, new, i + Len(old))
         ELSE <<s[i]>> \o ReplaceFrom(s, old, new, i + 1)
Replace(s, old, new) == ReplaceFrom(s, old, new, 1)

\* str.strip() for blanks
RECURSIVE LStrip(_)
LStrip(s) == IF s # <<>> /\ Head(s) = " " THEN LStrip(Tail(s)) ELSE s
RECURSIVE RStrip(_)
RStrip(s) == IF s # <<>> /\ s[Len(s)] = " " THEN RStrip(SubSeq(s, 1, Len(s) - 1)) ELSE s
Strip(s) == RStrip(LStrip(s))

\* sep.join(parts) for a sequence of sequences
RECURSIVE Join(_, _)
Join(sep, parts) ==
    IF parts = <<>> THEN <<>>
    ELSE IF Len(parts) = 1 THEN parts[1]
    ELSE parts[1] \o sep \o Join(sep, Tail(parts))

\* \b of Python's re module just before position i (1-based, 1..Len(s)+1)
WordBoundary(s, i) ==
    LET before == i > 1 /\ i - 1 <= Len(s) /\ IsWordCh(s[i - 1])
        after  == i >= 1 /\ i <= Len(s) /\ IsWordCh(s[i])
    IN  before # after

\* decimal digits of a natural number, and str(int)
RECURSIVE NatStr(_)
NatStr(n) == IF n < 10 THEN <<DigitChars[n + 1]>>
             ELSE NatStr(n \div 10) \o <<DigitChars[(n % 10) + 1]>>
IntStr(n) == IF n < 0 THEN <<"-">> \o NatStr(0 - n) ELSE NatStr(n)

(***************************************************************************)
(* Small utilities and regular expressions of table_analytics.py           *)
(***************************************************************************)
\* re.sub(r"[^a-z0-9_]+", " ", s): every maximal run of other characters
\* becomes one blank
IsNormCh(c) == IsLowerCh(c) \/ IsDigit(c) \/ c = "_"
RECURSIVE SubNonNorm(_, _)
SubNonNorm(s, i) ==
    IF i > Len(s) THEN <<>>
    ELSE IF IsNormCh(s[i]) THEN <<s[i]>> \o SubNonNorm(s, i + 1)
    ELSE IF i > 1 /\ ~IsNormCh(s[i - 1]) THEN SubNonNorm(s, i + 1)
    ELSE <<" ">> \o SubNonNorm(s, i + 1)

_normalize(s) == Strip(SubNonNorm(LowerStr(s), 1))

\* str.split(): the maximal runs of non-blank characters, in order
RECURSIVE SplitFrom(_, _, _)
SplitFrom(s, i, cur) ==
    IF i > Len(s) THEN (IF cur = <<>> THEN <<>> ELSE <<cur>>)
    ELSE IF s[i] = " "
         THEN (IF cur = <<>> THEN <<>> ELSE <<cur>>) \o SplitFrom(s, i + 1, <<>>)
         ELSE SplitFrom(s, i + 1, Append(cur, s[i]))
Split(s) == SplitFrom(s, 1, <<>>)

\* set(_normalize(s).split())
TokenSet(s) == Range(Split(_normalize(s)))

\* _Q_RE = re.compile(r"\bq([1-4])\b", re.I): a match starts at i
QuarterDigits == {"1", "2", "3", "4"}
_Q_RE_at(s, i) ==
    /\ i >= 1
    /\ i + 1 <= Len(s)
    /\ LowerCh(s[i]) = "q"
    /\ s[i + 1] \in QuarterDigits
    /\ WordBoundary(s, i)
    /\ WordBoundary(s, i + 2)
\* _Q_RE.search(s): position of the leftmost match, 0 when there is none
_Q_RE(s) ==
    IF \E i \in 1..Len(s) : _Q_RE_at(s, i)
    THEN CHOOSE i \in 1..Len(s) :
            _Q_RE_at(s, i) /\ \A j \in 1..(i - 1) : ~_Q_RE_at(s, j)
    ELSE 0
\* m.group(1) of that match
_Q_RE_group1(s) == s[_Q_RE(s) + 1]

\* YEAR_RE = re.compile(r"\b(19|20)\d{2}\b"), searched
YEAR_RE(s) ==
    \E i \in 1..Len(s) :
        /\ i + 3 <= Len(s)
        /\ \/ s[i] = "1" /\ s[i + 1] = "9"
           \/ s[i] = "2" /\ s[i + 1] = "0"
        /\ IsDigit(s[i + 2])
        /\ IsDigit(s[i + 3])
        /\ WordBoundary(s, i)
        /\ WordBoundary(s, i + 4)

DigitsAt(s, i, n) == i + n - 1 <= Len(s) /\ \A j \in i..(i + n - 1) : IsDigit(s[j])

\* DATE_LIKE_RE, matched against a stripped string
DATE_LIKE_RE(s) ==
    LET t == Strip(s)
        date == /\ Len(t) >= 10
                /\ DigitsAt(t, 1, 4) /\ t[5] = "-"
                /\ DigitsAt(t, 6, 2) /\ t[8] = "-"
                /\ DigitsAt(t, 9, 2)
        time == /\ Len(t) >= 19
                /\ t[11] \in {" ", "T"}
                /\ DigitsAt(t, 12, 2) /\ t[14] = ":"
                /\ DigitsAt(t, 15, 2) /\ t[17] = ":"
                /\ DigitsAt(t, 18, 2)
        frac == /\ Len(t) >= 21
                /\ t[20] = "."
                /\ \A j \in 21..Len(t) : IsDigit(t[j])
    IN  date /\ (Len(t) = 10 \/ (time /\ (Len(t) = 19 \/ frac)))

\* re.match(r"^-?\d+(\.\d+)?$", s)
IsPlainNumber(s) ==
    LET u == IF s # <<>> /\ s[1] = "-" THEN Tail(s) ELSE s
        dot == IF \E i \in 1..Len(u) : u[i] = "."
               THEN CHOOSE i \in 1..Len(u) : u[i] = "." /\ \A j \in 1..(i - 1) : u[j] # "."
               ELSE 0
    IN  IF dot = 0
        THEN u # <<>> /\ \A i \in 1..Len(u) : IsDigit(u[i])
        ELSE /\ dot > 1
             /\ dot < Len(u)
             /\ \A i \in 1..Len(u) : i # dot => IsDigit(u[i])

IsNotComma(c) == c # ","
IsNumCh(c) == IsDigit(c) \/ c = "." \/ c = "-"

_looks_like_number(s0) ==
    LET s == Strip(s0)
        s2 == SelectSeq(SelectSeq(s, IsNotComma), IsNumCh)
    IN  s # <<>> /\ IsPlainNumber(s2)

Months == {<<"j","a","n">>, <<"f","e","b">>, <<"m","a","r">>, <<"a","p","r">>, <<"m","a","y">>, <<"j","u","n">>,
           <<"j","u","l">>, <<"a","u","g">>, <<"s","e","p">>, <<"o","c","t">>, <<"n","o","v">>, <<"d","e","c">>}

_looks_like_date(s0) ==
    LET s == Strip(s0)
    IN  /\ s # <<>>
        /\ \/ DATE_LIKE_RE(s)
           \/ \E m \in Months : Contains(LowerStr(s), m)

Min(a, b) == IF a < b THEN a ELSE b
Max(a, b) == IF a > b THEN a ELSE b

\* xs[:n]
Take(xs, n) == SubSeq(xs, 1, Min(n, Len(xs)))

\* dict.get(key, default)
Get(d, key, default) == IF key \in DOMAIN d THEN d[key] ELSE default
\* d[key] = value
Put(d, key, value) == [x \in (DOMAIN d) \cup {key} |-> IF x = key THEN value ELSE d[x]]

(***************************************************************************)
(* Samples and type inference                                              *)
(***************************************************************************)
\* _sample_rows: LIMIT :n rows, each projected on `columns`
SampleLimit == 8
\* analyze_table: sample_cols = headers[: min(24, len(headers))]
SampleCols == 24
\* _infer_kinds: vals = col_vals[h][:8]
KindVals == 8
\* _trim_samples: max_chars
MaxChars == 60

_sample_rows(data, columns) ==
    [i \in 1..Min(SampleLimit, Len(data)) |->
        [c \in Range(columns) |-> Get(data[i], c, <<>>)]]

_trim_samples(samples) ==
    [i \in DOMAIN samples |->
        [c \in DOMAIN samples[i] |->
            IF Len(samples[i][c]) <= MaxChars THEN samples[i][c]
            ELSE SubSeq(samples[i][c], 1, MaxChars) \o <<"...">>]]

NonEmpty(v) == v # <<>>

\* a variant that looks at the sampled values before the header's name
KindOf_values_first(h, samples) ==
    LET all  == [i \in DOMAIN samples |-> Get(samples[i], h, <<>>)]
        vals == Take(SelectSeq(all, NonEmpty), KindVals)
        name == LowerStr(h)
    IN  IF vals # <<>> /\ \A i \in DOMAIN vals : _looks_like_number(vals[i])
        THEN "number"
        ELSE IF _Q_RE(name) # 0 THEN "period_q" \o _Q_RE_group1(name)
        ELSE "text"

\* the kind _infer_kinds gives header h
KindOf(h, samples) ==
    LET all  == [i \in DOMAIN samples |-> Get(samples[i], h, <<>>)]
        vals == Take(SelectSeq(all, NonEmpty), KindVals)
        name == LowerStr(h)
        nDate == Cardinality({i \in DOMAIN vals : _looks_like_date(vals[i])})
    IN  IF _Q_RE(name) # 0 THEN "period_q" \o _Q_RE_group1(name)
        ELSE IF \E t \in {<<"d","a","t","e">>, <<"y","e","a","r">>, <<"m","o","n","t","h">>, <<"q","u","a","r","t","e","r">>, <<"w","e","e","k">>, <<"d","a","y">>} :
                    Contains(name, t)
             THEN "temporal"
        ELSE IF vals # <<>> /\ \A i \in DOMAIN vals : _looks_like_number(vals[i])
             THEN "number"
        ELSE IF vals # <<>> /\ nDate >= Max(2, Len(vals) \div 2)
             THEN "temporal"
        ELSE "text"

_infer_kinds(headers, samples) == [h \in Range(headers) |-> KindOf(h, samples)]

PeriodKinds == {"period_q1", "period_q2", "period_q3", "period_q4"}

(***************************************************************************)
(* Intent and auto-synthesis                                               *)
(***************************************************************************)
AnyIn(words, s) == \E w \in words : Contains(s, w)

\* the intent, or "" for None
_detect_intent(q) ==
    LET ql == LowerStr(q)
    IN  IF AnyIn({<<"s","u","m">>, <<"t","o","t","a","l">>, <<"a","d","d"," ","u","p">>}, ql) THEN <<"s","u","m">>
        ELSE IF AnyIn({<<"a","v","e","r","a","g","e">>, <<"a","v","g">>, <<"m","e","a","n">>}, ql) THEN <<"a","v","g">>
        ELSE IF AnyIn({<<"m","a","x","i","m","u","m">>, <<"m","a","x">>, <<"h","i","g","h","e","s","t">>, <<"t","o","p"," ","1">>}, ql) THEN <<"m","a","x">>
        ELSE IF AnyIn({<<"m","i","n","i","m","u","m">>, <<"m","i","n">>, <<"l","o","w","e","s","t">>, <<"b","o","t","t","o","m"," ","1">>}, ql) THEN <<"m","i","n">>
        ELSE IF AnyIn({<<"c","o","u","n","t">>, <<"h","o","w"," ","m","a","n","y">>, <<"n","u","m","b","e","r"," ","o","f">>}, ql) THEN <<"c","o","u","n","t">>
        ELSE <<>>

\* the period tag, or "" for None
_period_tag(q) ==
    LET r == Replace(q, <<"q","u","a","r","t","e","r">>, <<"q">>)
    IN  IF _Q_RE(r) # 0 THEN <<"q", _Q_RE_group1(r)>> ELSE <<>>

\* (overlap, bonus) of header h
NumericScore(h, q, period) ==
    LET overlap == Cardinality(TokenSet(q) \cap TokenSet(h))
        bonus   == IF period # <<>> /\ Contains(LowerStr(h), period) THEN 1 ELSE 0
    IN  <<overlap, bonus>>

\* tuple comparison a > b
ScoreGreater(a, b) == a[1] > b[1] \/ (a[1] = b[1] /\ a[2] > b[2])

\* the loop of _choose_best_numeric from header i on; best = <<>> for None
RECURSIVE ChooseFrom(_, _, _, _, _, _, _)
ChooseFrom(headers, kinds, q, period, i, best, best_score) ==
    IF i > Len(headers) THEN best
    ELSE LET h == headers[i]
             score == NumericScore(h, q, period)
         IN  IF Get(kinds, h, "") # "number"
             THEN ChooseFrom(headers, kinds, q, period, i + 1, best, best_score)
             ELSE IF ScoreGreater(score, best_score)
                  THEN ChooseFrom(headers, kinds, q, period, i + 1, h, score)
                  ELSE ChooseFrom(headers, kinds, q, period, i + 1, best, best_score)

_choose_best_numeric(headers, kinds, q, period) ==
    ChooseFrom(headers, kinds, q, period, 1, <<>>, <<-1, -1>>)

\* C14 mutant: a scalar test that ignores per-group language
_wants_scalar_ignores_groups(q) ==
    AnyIn({<<"m","a","x">>, <<"m","i","n">>, <<"s","u","m">>, <<"t","o","t","a","l">>, <<"a","v","g">>,
           <<"a","v","e","r","a","g","e">>, <<"m","e","a","n">>, <<"c","o","u","n","t">>, <<"t","o","p"," ","1">>,
           <<"l","a","r","g","e","s","t">>, <<"s","m","a","l","l","e","s","t">>}, LowerStr(q))

_wants_scalar(q) ==
    LET ql == LowerStr(q)
    IN  /\ AnyIn({<<"m","a","x">>, <<"m","a","x","i","m","u","m">>, <<"m","i","n">>, <<"m","i","n","i","m","u","m">>, <<"s","u","m">>, <<"t","o","t","a","l">>, <<"a","v","g">>,
                  <<"a","v","e","r","a","g","e">>, <<"m","e","a","n">>, <<"c","o","u","n","t">>, <<"t","o","p"," ","1">>, <<"l","a","r","g","e","s","t">>, <<"s","m","a","l","l","e","s","t">>}, ql)
        /\ ~AnyIn({<<" ","p","e","r"," ">>, <<" ","b","y"," ">>, <<" ","e","a","c","h"," ">>}, ql)

(***************************************************************************)
(* Tagged values: JSON values of a drafted plan, bind parameters, cells    *)
(***************************************************************************)
\* k is the Python type; n, s and l hold an int, a str and a list
StrV(s)  == [k |-> "str", n |-> 0, s |-> s, l |-> <<>>]
IntV(n)  == [k |-> "int", n |-> n, s |-> <<>>, l |-> <<>>]
NoneV    == [k |-> "none", n |-> 0, s |-> <<>>, l |-> <<>>]
ListV(l) == [k |-> "list", n |-> 0, s |-> <<>>, l |-> l]

\* repr() of a list element
PyRepr(x) ==
    IF x.k = "str" THEN <<"'">> \o x.s \o <<"'">>
    ELSE IF x.k = "int" THEN IntStr(x.n)
    ELSE <<"N","o","n","e">>

\* str(value)
PyStr(x) ==
    IF x.k = "str" THEN x.s
    ELSE IF x.k = "int" THEN IntStr(x.n)
    ELSE IF x.k = "none" THEN <<"N","o","n","e">>
    ELSE <<"[">> \o Join(<<",", " ">>, [i \in DOMAIN x.l |-> PyRepr(x.l[i])]) \o <<"]">>

\* bool(value)
Truthy(x) ==
    IF x.k = "str" THEN x.s # <<>>
    ELSE IF x.k = "int" THEN x.n # 0
    ELSE IF x.k = "none" THEN FALSE
    ELSE x.l # <<>>

(***************************************************************************)
(* Plan drafting                                                           *)
(***************************************************************************)
ALLOWED_FUNCS == {<<"s","u","m">>, <<"a","v","g">>, <<"c","o","u","n","t">>, <<"m","i","n">>, <<"m","a","x">>}
ALLOWED_OPS == {">=", "<=", " >", "<", "=", "!=", "in", "between", "contains"}

\* idx = {i: h for i, h in enumerate(headers)}
ColumnsIndex(headers) == [i \in 0..(Len(headers) - 1) |-> headers[i + 1]]

\* re.search(r"\{.*\}", raw, re.S): an opening brace with a closing brace after it
HasBraces(raw) ==
    \E i \in 1..Len(raw) : \E j \in (i + 1)..Len(raw) : raw[i] = "{" /\ raw[j] = "}"

\* C2 mutant: a _make_plan that keeps the "table" entry of the drafted plan
_make_plan_keeps_table(resp, q, headers, fk_, ti_, kinds) ==
    LET idx == ColumnsIndex(headers)
        numeric_ids  == {i \in DOMAIN idx : Get(kinds, idx[i], "") = "number"}
        temporal_ids == {i \in DOMAIN idx :
                            \/ Get(kinds, idx[i], "") \in PeriodKinds
                            \/ Get(kinds, idx[i], "") = "temporal"}
        raw == Strip(resp.text)
    IN  IF ~HasBraces(raw)
        THEN [raised |-> "", plan |-> [error |-> <<"n","o","_","j","s","o","n">>, raw |-> raw]]
        ELSE IF ~resp.parses
        THEN [raised |-> "JSONDecodeError", plan |-> [raw |-> raw]]
        ELSE [raised |-> "",
              plan |-> Put(Put(Put(Put(Put(Put(resp.json,
                        "table", Get(resp.json, "table", [file_key |-> fk_, table_index |-> ti_])),
                        "_columns_index", idx),
                        "_kinds", kinds),
                        "_q", q),
                        "_numeric_ids", numeric_ids),
                        "_temporal_ids", temporal_ids)]

\* The drafting collaborator's response: resp.text is its content,
\* resp.parses says whether json.loads accepts the brace-delimited part (it
\* raises otherwise) and resp.json is the object it returns.
\* The result is [raised, plan].
_make_plan(resp, q, headers, fk_, ti_, kinds) ==
    LET idx == ColumnsIndex(headers)
        numeric_ids  == {i \in DOMAIN idx : Get(kinds, idx[i], "") = "number"}
        temporal_ids == {i \in DOMAIN idx :
                            \/ Get(kinds, idx[i], "") \in PeriodKinds
                            \/ Get(kinds, idx[i], "") = "temporal"}
        raw == Strip(resp.text)
    IN  IF ~HasBraces(raw)
        THEN [raised |-> "", plan |-> [error |-> <<"n","o","_","j","s","o","n">>, raw |-> raw]]
        ELSE IF ~resp.parses
        THEN [raised |-> "JSONDecodeError", plan |-> [raw |-> raw]]
        ELSE [raised |-> "",
              plan |-> Put(Put(Put(Put(Put(Put(resp.json,
                        "table", [file_key |-> fk_, table_index |-> ti_]),
                        "_columns_index", idx),
                        "_kinds", kinds),
                        "_q", q),
                        "_numeric_ids", numeric_ids),
                        "_temporal_ids", temporal_ids)]

\* plan.get("_columns_index", {}).get(int(cid)); <<>> stands for None
_id_to_col(plan, cid) == Get(Get(plan, "_columns_index", <<>>), cid, <<>>)

(***************************************************************************)
(* Validation and normalisation                                            *)
(***************************************************************************)
\* the JSON value null as a col_id: ids are integers, and no draft uses this
\* one as an id
JsonNull == -1000

\* the aggregates loop from aggregate i on: [aggs, reason, raised], reason <<>>
\* when the loop completes; int(None) raises TypeError
\* C21 mutant: an aggregates loop that gives no default alias
RECURSIVE ValidateAggs_no_default(_, _, _)
ValidateAggs_no_default(plan, aggs, i) ==
    IF i > Len(aggs) THEN [aggs |-> aggs, reason |-> <<>>, raised |-> ""]
    ELSE
    LET a == aggs[i]
        numeric_ids == Get(plan, "_numeric_ids", {})
    IN  IF ~("func" \in DOMAIN a /\ a.func \in ALLOWED_FUNCS)
        THEN [aggs |-> aggs, reason |-> <<"b","a","d","_","a","g","g","_","f","u","n","c">>, raised |-> ""]
        ELSE IF a.func # <<"c","o","u","n","t">> /\ "col_id" \notin DOMAIN a
        THEN [aggs |-> aggs, reason |-> <<"m","i","s","s","i","n","g","_","a","g","g","_","c","o","l","_","i","d">>, raised |-> ""]
        ELSE IF a.func # <<"c","o","u","n","t">> /\ a.col_id = JsonNull
        THEN [aggs |-> aggs, reason |-> <<>>, raised |-> "TypeError"]
        ELSE IF a.func # <<"c","o","u","n","t">> /\ a.col_id \notin numeric_ids
        THEN [aggs |-> aggs,
              reason |-> <<"a","g","g","_","o","n","_","n","o","n","_","n","u","m","e","r","i","c",":">> \o
                         (IF _id_to_col(plan, a.col_id) = <<>> THEN <<"N","o","n","e">>
                          ELSE _id_to_col(plan, a.col_id)),
              raised |-> ""]
        ELSE IF a.func # <<"c","o","u","n","t">> /\ _id_to_col(plan, a.col_id) = <<>>
        THEN [aggs |-> aggs, reason |-> <<"b","a","d","_","a","g","g","_","c","o","l","_","i","d",":">> \o IntStr(a.col_id), raised |-> ""]
        ELSE
        LET col == IF a.func # <<"c","o","u","n","t">> THEN _id_to_col(plan, a.col_id) ELSE <<>>
            a1  == Put(a, "column", col)
            a2  == Put(a1, "as", Get(a1, "as", <<>>))
        IN  ValidateAggs_no_default(plan, [aggs EXCEPT ![i] = a2], i + 1)

RECURSIVE ValidateAggs(_, _, _)
ValidateAggs(plan, aggs, i) ==
    IF i > Len(aggs) THEN [aggs |-> aggs, reason |-> <<>>, raised |-> ""]
    ELSE
    LET a == aggs[i]
        numeric_ids == Get(plan, "_numeric_ids", {})
    IN  IF ~("func" \in DOMAIN a /\ a.func \in ALLOWED_FUNCS)
        THEN [aggs |-> aggs, reason |-> <<"b","a","d","_","a","g","g","_","f","u","n","c">>, raised |-> ""]
        ELSE IF a.func # <<"c","o","u","n","t">> /\ "col_id" \notin DOMAIN a
        THEN [aggs |-> aggs, reason |-> <<"m","i","s","s","i","n","g","_","a","g","g","_","c","o","l","_","i","d">>, raised |-> ""]
        ELSE IF a.func # <<"c","o","u","n","t">> /\ a.col_id = JsonNull
        THEN [aggs |-> aggs, reason |-> <<>>, raised |-> "TypeError"]
        ELSE IF a.func # <<"c","o","u","n","t">> /\ a.col_id \notin numeric_ids
        THEN [aggs |-> aggs,
              reason |-> <<"a","g","g","_","o","n","_","n","o","n","_","n","u","m","e","r","i","c",":">> \o
                         (IF _id_to_col(plan, a.col_id) = <<>> THEN <<"N","o","n","e">>
                          ELSE _id_to_col(plan, a.col_id)),
              raised |-> ""]
        ELSE IF a.func # <<"c","o","u","n","t">> /\ _id_to_col(plan, a.col_id) = <<>>
        THEN [aggs |-> aggs, reason |-> <<"b","a","d","_","a","g","g","_","c","o","l","_","i","d",":">> \o IntStr(a.col_id), raised |-> ""]
        ELSE
        LET col == IF a.func # <<"c","o","u","n","t">> THEN _id_to_col(plan, a.col_id) ELSE <<>>
            a1  == Put(a, "column", col)
            dflt == a1.func \o <<"_">> \o (IF col # <<>> THEN col ELSE <<"r","o","w","s">>)
            a2  == Put(a1, "as", IF Get(a1, "as", <<>>) # <<>> THEN a1["as"] ELSE dflt)
        IN  ValidateAggs(plan, [aggs EXCEPT ![i] = a2], i + 1)

\* mapped_gb
RECURSIVE MapGroupBy(_, _)
MapGroupBy(plan, gb) ==
    IF gb = <<>> THEN <<>>
    ELSE (IF _id_to_col(plan, Head(gb)) # <<>> THEN <<_id_to_col(plan, Head(gb))>> ELSE <<>>)
         \o MapGroupBy(plan, Tail(gb))

\* the temporal guardrail's is_temporal_val
TemporalText(s) == YEAR_RE(s) \/ _Q_RE(Replace(s, <<"q","u","a","r","t","e","r">>, <<"q">>)) # 0

\* C9 mutant: an is_temporal_val that looks for years only
IsTemporalVal_years_only(val) ==
    IF val.k = "list"
    THEN \E i \in DOMAIN val.l : YEAR_RE(PyStr(val.l[i]))
    ELSE YEAR_RE(IF Truthy(val) THEN PyStr(val) ELSE <<>>)

\* is_temporal_val of a filter value
IsTemporalVal(val) ==
    IF val.k = "list"
    THEN \E i \in DOMAIN val.l : TemporalText(PyStr(val.l[i]))
    ELSE TemporalText(IF Truthy(val) THEN PyStr(val) ELSE <<>>)

\* the filters loop from filter i on: [filters (norm_filters), reason, raised]
RECURSIVE ValidateFilters(_, _, _, _)
ValidateFilters(plan, fs, i, norm) ==
    IF i > Len(fs) THEN [filters |-> norm, reason |-> <<>>, raised |-> ""]
    ELSE
    LET f == fs[i]
        temporal_ids == Get(plan, "_temporal_ids", {})
    IN  IF ~("op" \in DOMAIN f /\ f.op \in ALLOWED_OPS)
        THEN [filters |-> norm, reason |-> <<"b","a","d","_","f","i","l","t","e","r","_","o","p">>, raised |-> ""]
        ELSE IF "col_id" \notin DOMAIN f
        THEN [filters |-> norm, reason |-> <<>>, raised |-> "TypeError"]
        ELSE IF _id_to_col(plan, f.col_id) = <<>>
        THEN ValidateFilters(plan, fs, i + 1, norm)
        ELSE IF IsTemporalVal(Get(f, "value", NoneV)) /\ f.col_id \notin temporal_ids
        THEN ValidateFilters(plan, fs, i + 1, norm)
        ELSE ValidateFilters(plan, fs, i + 1,
                             Append(norm, Put(f, "column", _id_to_col(plan, f.col_id))))

\* [plan, ok, reason, raised]: the plan as mutated in place up to the return
_validate_and_normalize(plan) ==
    IF Get(plan, "error", <<>>) # <<>>
    THEN [plan |-> plan, ok |-> FALSE, reason |-> plan.error, raised |-> ""]
    ELSE
    LET va == ValidateAggs(plan, Get(plan, "aggregates", <<>>), 1)
        p1 == IF "aggregates" \in DOMAIN plan THEN Put(plan, "aggregates", va.aggs) ELSE plan
    IN  IF va.raised # ""
        THEN [plan |-> p1, ok |-> FALSE, reason |-> <<>>, raised |-> va.raised]
        ELSE IF va.reason # <<>>
        THEN [plan |-> p1, ok |-> FALSE, reason |-> va.reason, raised |-> ""]
        ELSE
        LET p2 == Put(p1, "group_by", MapGroupBy(p1, Get(p1, "group_by", <<>>)))
            vf == ValidateFilters(p2, Get(p2, "filters", <<>>), 1, <<>>)
        IN  IF vf.raised # ""
            THEN [plan |-> p2, ok |-> FALSE, reason |-> <<>>, raised |-> vf.raised]
            ELSE IF vf.reason # <<>>
            THEN [plan |-> p2, ok |-> FALSE, reason |-> vf.reason, raised |-> ""]
            ELSE
            LET p3 == Put(p2, "filters", vf.filters)
                p4 == IF Get(p3, "aggregates", <<>>) # <<>> /\ _wants_scalar(Get(p3, "_q", <<>>))
                      THEN Put(Put(Put(p3, "group_by", <<>>),
                               "order_by", <<[column |-> p3.aggregates[1]["as"], dir |-> <<"d","e","s","c">>]>>),
                               "limit", 1)
                      ELSE p3
            IN  [plan |-> p4, ok |-> TRUE, reason |-> <<"o","k">>, raised |-> ""]

(***************************************************************************)
(* SQL compilation.  The statement text is the sequence of the pieces the  *)
(* f-strings concatenate: Lit is template text of the source, Txt is an    *)
(* interpolated str, Num an interpolated int, Ph(n) the placeholder :p<n>. *)
(***************************************************************************)
\* k is the kind of piece; t, c and n hold template text, a str and an int
Lit(s) == [k |-> "lit", t |-> s, c |-> <<>>, n |-> 0]
Txt(s) == [k |-> "txt", t |-> "", c |-> s, n |-> 0]
Num(n) == [k |-> "num", t |-> "", c |-> <<>>, n |-> n]
Ph(n)  == [k |-> "ph", t |-> "", c |-> <<>>, n |-> n]

_qid(s) == <<"\"">> \o Replace(s, <<"\"">>, <<"\"","\"">>) \o <<"\"">>

_col_num(col) ==
    << Lit("(REGEXP_REPLACE(REGEXP_REPLACE(data->>'"), Txt(col),
       Lit("', '[,]', ''), '[^0-9.-]', '', 'g'))::numeric") >>

_col_txt(col) == << Lit("(data->>'"), Txt(col), Lit("')") >>

\* the alias of the first aggregate whose col_id is cid, <<>> for None
RECURSIVE AggAliasFor(_, _)
AggAliasFor(aggs, cid) ==
    IF aggs = <<>> THEN <<>>
    ELSE IF "col_id" \in DOMAIN Head(aggs) /\ Head(aggs).col_id = cid
         THEN Get(Head(aggs), "as", <<>>)
         ELSE AggAliasFor(Tail(aggs), cid)

\* norm_ob: the order_by entries _build_sql keeps, as {column, dir}
RECURSIVE NormOrderBy(_, _, _)
NormOrderBy(order_by, aggs, cols_index) ==
    IF order_by = <<>> THEN <<>>
    ELSE
    LET ob  == Head(order_by)
        dir == Get(ob, "dir", <<"d","e","s","c">>)
        rest == NormOrderBy(Tail(order_by), aggs, cols_index)
    IN  IF "column" \in DOMAIN ob
        THEN <<[column |-> ob.column, dir |-> dir]>> \o rest
        ELSE IF "col_id" \in DOMAIN ob
        THEN IF AggAliasFor(aggs, ob.col_id) # <<>>
             THEN <<[column |-> AggAliasFor(aggs, ob.col_id), dir |-> dir]>> \o rest
             ELSE IF Get(cols_index, ob.col_id, <<>>) # <<>>
             THEN <<[column |-> cols_index[ob.col_id], dir |-> dir]>> \o rest
             ELSE rest
        ELSE rest

\* op -> SQL operator of _op_sql
_op_sql(op) == IF op = "!=" THEN "<>" ELSE op

\* C5 mutant: a filters loop that names both BETWEEN bounds :p<len(dyn)>
RECURSIVE CompileFilters_one_name(_, _, _, _)
CompileFilters_one_name(filters, i, where, dyn) ==
    IF i > Len(filters) THEN [where |-> where, dyn |-> dyn]
    ELSE
    LET f   == filters[i]
        col == f.column
        op  == f.op
        val == Get(f, "value", NoneV)
        n   == Len(dyn)
    IN  IF op \in {">=", "<=", ">", "<", "=", "!="}
        THEN CompileFilters_one_name(filters, i + 1,
                Append(where, _col_num(col) \o <<Lit(" "), Lit(_op_sql(op)), Lit(" "), Ph(n)>>),
                Append(dyn, val))
        ELSE IF op = "contains"
        THEN CompileFilters_one_name(filters, i + 1,
                Append(where, _col_txt(col) \o <<Lit(" ILIKE "), Ph(n)>>),
                Append(dyn, StrV(<<"%">> \o PyStr(val) \o <<"%">>)))
        ELSE IF op = "in" /\ val.k = "list"
        THEN CompileFilters_one_name(filters, i + 1,
                Append(where, _col_txt(col) \o <<Lit(" IN (")>>
                              \o Join(<<Lit(",")>>, [j \in 1..Len(val.l) |-> <<Ph(n + j - 1)>>])
                              \o <<Lit(")")>>),
                dyn \o val.l)
        ELSE IF op = "between" /\ val.k = "list" /\ Len(val.l) = 2
        THEN CompileFilters_one_name(filters, i + 1,
                Append(where, _col_num(col) \o <<Lit(" BETWEEN "), Ph(n), Lit(" AND "), Ph(n)>>),
                dyn \o val.l)
        ELSE CompileFilters_one_name(filters, i + 1, where, dyn)

\* the filters loop from filter i on: [where (where_parts), dyn]
RECURSIVE CompileFilters(_, _, _, _)
CompileFilters(filters, i, where, dyn) ==
    IF i > Len(filters) THEN [where |-> where, dyn |-> dyn]
    ELSE
    LET f   == filters[i]
        col == f.column
        op  == f.op
        val == Get(f, "value", NoneV)
        n   == Len(dyn)
    IN  IF op \in {">=", "<=", ">", "<", "=", "!="}
        THEN CompileFilters(filters, i + 1,
                Append(where, _col_num(col) \o <<Lit(" "), Lit(_op_sql(op)), Lit(" "), Ph(n)>>),
                Append(dyn, val))
        ELSE IF op = "contains"
        THEN CompileFilters(filters, i + 1,
                Append(where, _col_txt(col) \o <<Lit(" ILIKE "), Ph(n)>>),
                Append(dyn, StrV(<<"%">> \o PyStr(val) \o <<"%">>)))
        ELSE IF op = "in" /\ val.k = "list"
        THEN CompileFilters(filters, i + 1,
                Append(where, _col_txt(col) \o <<Lit(" IN (")>>
                              \o Join(<<Lit(",")>>, [j \in 1..Len(val.l) |-> <<Ph(n + j - 1)>>])
                              \o <<Lit(")")>>),
                dyn \o val.l)
        ELSE IF op = "between" /\ val.k = "list" /\ Len(val.l) = 2
        THEN CompileFilters(filters, i + 1,
                Append(where, _col_num(col) \o <<Lit(" BETWEEN "), Ph(n), Lit(" AND "), Ph(n + 1)>>),
                dyn \o val.l)
        ELSE CompileFilters(filters, i + 1, where, dyn)

\* sql_templates.build_select_query; order_by is <<>> for None
build_select_query(sel, where_parts, group_by_exprs, order_by, limit) ==
    <<Lit("SELECT ")>> \o Join(<<Lit(", ")>>, sel)
    \o <<Lit(" FROM table_rows WHERE ")>> \o Join(<<Lit(" AND ")>>, where_parts)
    \o (IF group_by_exprs # <<>>
        THEN <<Lit(" GROUP BY ")>> \o Join(<<Lit(", ")>>, group_by_exprs)
        ELSE <<>>)
    \o (IF order_by # <<>>
        THEN <<Lit(" ORDER BY "), Txt(order_by[1].column), Lit(" "),
               Txt(UpperStr(Get(order_by[1], "dir", <<"d","e","s","c">>)))>>
        ELSE <<>>)
    \o (IF limit # 0 THEN <<Lit(" LIMIT "), Num(limit)>> ELSE <<>>)

\* the SELECT item of aggregate a
AggSelect(a) ==
    IF UpperStr(a.func) = <<"C","O","U","N","T">>
    THEN <<Lit("COUNT(*) AS "), Txt(_qid(a["as"]))>>
    ELSE <<Txt(UpperStr(a.func)), Lit("(")>> \o _col_num(a.column)
         \o <<Lit(") AS "), Txt(_qid(a["as"]))>>

\* a[...] lookups of the aggregates loop that raise KeyError
AggKeyError(a) ==
    \/ "func" \notin DOMAIN a
    \/ "as" \notin DOMAIN a
    \/ UpperStr(a.func) # <<"C","O","U","N","T">> /\ "column" \notin DOMAIN a

\* the statement and bind parameters _build_sql computes: [raised, sql, params]
BuildSelect(plan) ==
    IF "table" \notin DOMAIN plan
    THEN [raised |-> "KeyError", sql |-> <<>>, params |-> <<>>]
    ELSE
    LET fk_ == plan.table.file_key
        ti_ == plan.table.table_index
        filters  == Get(plan, "filters", <<>>)
        group_by == Get(plan, "group_by", <<>>)
        aggs     == Get(plan, "aggregates", <<>>)
        limit    == Get(plan, "limit", 0)
        order_by == NormOrderBy(Get(plan, "order_by", <<>>), aggs,
                                Get(plan, "_columns_index", <<>>))
        gb_exprs == [i \in DOMAIN group_by |-> _col_txt(group_by[i])]
        gb_sel   == [i \in DOMAIN group_by |->
                        _col_txt(group_by[i]) \o <<Lit(" AS "), Txt(_qid(group_by[i]))>>]
        sel0     == gb_sel \o [i \in DOMAIN aggs |-> AggSelect(aggs[i])]
        sel      == IF sel0 = <<>> THEN << <<Lit("COUNT(*) AS count_rows")>> >> ELSE sel0
        cf       == CompileFilters(filters, 1,
                        << <<Lit("file_key = :fk")>>, <<Lit("table_index = :ti")>> >>, <<>>)
        order_by_quoted ==
            IF order_by # <<>>
            THEN <<[column |-> _qid(order_by[1].column), dir |-> order_by[1].dir]>>
            ELSE <<>>
        params == [key \in {"fk", "ti"} \cup {"p" \o ToString(i - 1) : i \in DOMAIN cf.dyn} |->
                     IF key = "fk" THEN StrV(fk_)
                     ELSE IF key = "ti" THEN IntV(ti_)
                     ELSE cf.dyn[CHOOSE i \in DOMAIN cf.dyn : key = "p" \o ToString(i - 1)]]
    IN  IF \E i \in DOMAIN aggs : AggKeyError(aggs[i])
        THEN [raised |-> "KeyError", sql |-> <<>>, params |-> <<>>]
        ELSE [raised |-> "",
              sql |-> build_select_query(sel, cf.where, gb_exprs, order_by_quoted, limit),
              params |-> params]

\* C17 mutant: a compilation that empties the plan's filters as it reads them
_build_sql_consumes_filters(plan) ==
    [raised |-> BuildSelect(plan).raised, sql |-> BuildSelect(plan).sql,
     params |-> BuildSelect(plan).params,
     plan |-> IF "filters" \in DOMAIN plan THEN Put(plan, "filters", <<>>) ELSE plan]

\* [raised, sql, params, plan]: plan is the plan as the call leaves it; the
\* function reads the plan and assigns to locals only
_build_sql(plan) ==
    [raised |-> BuildSelect(plan).raised, sql |-> BuildSelect(plan).sql,
     params |-> BuildSelect(plan).params, plan |-> plan]

(***************************************************************************)
(* Summaries                                                               *)
(***************************************************************************)
\* Result cells: NumV(c) is the number c/100 (an int or Decimal of the row
\* store), StrV a text cell, NoneV SQL NULL.
NumV(c) == [k |-> "num", n |-> c, s |-> <<>>, l |-> <<>>]

\* f"{n:,}" for a natural number
RECURSIVE Thousands(_)
Thousands(n) ==
    IF n < 1000 THEN NatStr(n)
    ELSE Thousands(n \div 1000) \o <<",">>
         \o <<DigitChars[((n \div 100) % 10) + 1], DigitChars[((n \div 10) % 10) + 1],
              DigitChars[(n % 10) + 1]>>

\* int(s) for a string of digits
RECURSIVE ParseNat(_)
ParseNat(s) ==
    IF s = <<>> THEN 0
    ELSE 10 * ParseNat(SubSeq(s, 1, Len(s) - 1))
         + (CHOOSE d \in 0..9 : DigitChars[d + 1] = s[Len(s)])

\* C15 mutant: a number format that always prints two decimals
_format_number_two_decimals(x) ==
    IF x.k = "num"
    THEN LET c == IF x.n < 0 THEN 0 - x.n ELSE x.n
         IN  (IF x.n < 0 THEN <<"-">> ELSE <<>>) \o Thousands(c \div 100) \o <<".">>
             \o <<DigitChars[((c \div 10) % 10) + 1], DigitChars[(c % 10) + 1]>>
    ELSE IF x.k = "str" /\ x.s # <<>> /\ \A i \in DOMAIN x.s : IsDigit(x.s[i])
    THEN Thousands(ParseNat(x.s)) \o <<".","0","0">>
    ELSE PyStr(x)

\* float(x) succeeds for a number and for a text cell of digits; it raises for
\* None and for other text, and str(x) is returned.  A number has at most two
\* decimals.
_format_number(x) ==
    IF x.k = "num"
    THEN LET c == IF x.n < 0 THEN 0 - x.n ELSE x.n
             sign == IF x.n < 0 THEN <<"-">> ELSE <<>>
         IN  IF c % 100 = 0
             THEN sign \o Thousands(c \div 100)
             ELSE sign \o Thousands(c \div 100) \o <<".">>
                  \o <<DigitChars[((c \div 10) % 10) + 1], DigitChars[(c % 10) + 1]>>
    ELSE IF x.k = "str" /\ x.s # <<>> /\ \A i \in DOMAIN x.s : IsDigit(x.s[i])
    THEN Thousands(ParseNat(x.s))
    ELSE PyStr(x)

Humanize(s) == Strip(Replace(s, <<"_">>, <<" ">>))

\* str.capitalize()
Capitalize(s) == IF s = <<>> THEN s ELSE <<UpperCh(s[1])>> \o LowerStr(Tail(s))

PrettyFn(func) ==
    IF func = <<"m","a","x">> THEN <<"M","a","x","i","m","u","m">>
    ELSE IF func = <<"m","i","n">> THEN <<"M","i","n","i","m","u","m">>
    ELSE IF func = <<"s","u","m">> THEN <<"S","u","m">>
    ELSE IF func = <<"a","v","g">> THEN <<"A","v","e","r","a","g","e">>
    ELSE IF func = <<"c","o","u","n","t">> THEN <<"C","o","u","n","t">>
    ELSE Capitalize(func)

ColumnOrRows(a) == IF Get(a, "column", <<>>) # <<>> THEN a.column ELSE <<"r","o","w","s">>

\* C24 mutant: a scalar summary for plans of exactly one aggregate
_summarize_scalar_single(plan, rows) ==
    IF rows = <<>> \/ Len(Get(plan, "aggregates", <<>>)) # 1 \/ Get(plan, "group_by", <<>>) # <<>>
    THEN <<>>
    ELSE LET a == plan.aggregates[1]
             val == Get(rows[1], a["as"], NoneV)
         IN  IF val.k = "none" THEN <<>>
             ELSE PrettyFn(a.func) \o <<" ","o","f"," ">> \o Humanize(ColumnOrRows(a)) \o <<":"," ">>
                  \o _format_number(val)

\* <<>> stands for None
_summarize_scalar(plan, rows) ==
    IF rows = <<>> \/ Get(plan, "aggregates", <<>>) = <<>> \/ Get(plan, "group_by", <<>>) # <<>>
    THEN <<>>
    ELSE LET a == plan.aggregates[1]
             val == Get(rows[1], a["as"], NoneV)
         IN  IF val.k = "none" THEN <<>>
             ELSE PrettyFn(a.func) \o <<" ","o","f"," ">> \o Humanize(ColumnOrRows(a)) \o <<":"," ">>
                  \o _format_number(val)

MaxLines == 5

GroupedLine(plan, r) ==
    LET gb   == plan.group_by
        segs == [i \in DOMAIN gb |-> Humanize(gb[i]) \o <<":"," ">> \o PyStr(Get(r, gb[i], NoneV))]
        aseg == IF Get(plan, "aggregates", <<>>) # <<>>
                THEN LET a == plan.aggregates[1]
                     IN  << UpperStr(a.func) \o <<" ">> \o Humanize(ColumnOrRows(a)) \o <<":"," ">>
                            \o _format_number(Get(r, a["as"], NoneV)) >>
                ELSE <<>>
    IN  Join(<<" ","|"," ">>, segs \o aseg)

\* C16 mutant: a grouped summary that prints its heading for any result set
_summarize_grouped_unguarded(plan, rows) ==
    IF Get(plan, "group_by", <<>>) = <<>>
    THEN <<>>
    ELSE LET top == Take(rows, MaxLines)
         IN  <<"T","o","p"," ","r","e","s","u","l","t","s",":">> \o <<"\n">>
             \o Join(<<"\n">>, [i \in DOMAIN top |-> <<"-"," ">> \o GroupedLine(plan, top[i])])

_summarize_grouped(plan, rows) ==
    IF rows = <<>> \/ Get(plan, "group_by", <<>>) = <<>>
    THEN <<>>
    ELSE LET top == Take(rows, MaxLines)
         IN  <<"T","o","p"," ","r","e","s","u","l","t","s",":">> \o <<"\n">>
             \o Join(<<"\n">>, [i \in DOMAIN top |-> <<"-"," ">> \o GroupedLine(plan, top[i])])

(***************************************************************************)
(* query_router.detect_type                                                *)
(***************************************************************************)
agg_words == {<<"s","u","m">>, <<"t","o","t","a","l">>, <<"a","v","e","r","a","g","e">>, <<"a","v","g">>, <<"m","e","a","n">>, <<"m","e","d","i","a","n">>, <<"c","o","u","n","t">>, <<"m","a","x">>, <<"m","i","n">>,
              <<"t","o","p">>, <<"r","a","n","k">>, <<"p","e","r","c","e","n","t","a","g","e">>, <<"p","e","r","c","e","n","t">>, <<"%">>, <<"r","a","t","e">>, <<"g","r","o","w","t","h">>, <<"c","h","a","n","g","e">>}
explain_words == {<<"e","x","p","l","a","i","n">>, <<"w","h","y">>, <<"i","n","s","i","g","h","t">>, <<"i","n","s","i","g","h","t","s">>, <<"i","n","t","e","r","p","r","e","t">>, <<"r","e","a","s","o","n">>,
                  <<"h","i","g","h","l","i","g","h","t">>, <<"a","n","a","l","y","s","i","s">>}
compare_words == {<<"b","e","t","w","e","e","n">>, <<"v","s">>, <<"v","e","r","s","u","s">>, <<"c","o","m","p","a","r","e">>, <<"d","i","f","f","e","r","e","n","c","e">>, <<"h","i","g","h","e","r">>, <<"l","o","w","e","r">>, <<"t","h","a","n">>}
analytic_phrases == {<<"h","o","w"," ","m","a","n","y">>, <<"w","h","a","t"," ","i","s"," ","t","h","e"," ","a","v","e","r","a","g","e">>, <<"w","h","a","t","'","s"," ","t","h","e"," ","a","v","e","r","a","g","e">>, <<"h","o","w"," ","m","u","c","h">>,
                     <<"c","a","l","c","u","l","a","t","e">>, <<"c","o","m","p","u","t","e">>, <<"w","h","a","t"," ","i","s"," ","t","h","e"," ","t","o","t","a","l">>}

\* the end of the maximal run of digits that starts at i
RECURSIVE DigitRunEnd(_, _)
DigitRunEnd(s, i) == IF i + 1 <= Len(s) /\ IsDigit(s[i + 1]) THEN DigitRunEnd(s, i + 1) ELSE i

\* re.search(r"\b\d+(?:[\.,]\d+)?(%|\b)", ql): a run of digits that starts at a
\* word boundary and is followed by "%" or a word boundary (the optional
\* fraction adds no match: "." and "," are themselves a word boundary)
number_like(ql) ==
    \E i \in 1..Len(ql) :
        /\ IsDigit(ql[i])
        /\ WordBoundary(ql, i)
        /\ WordBoundary(ql, DigitRunEnd(ql, i) + 1)

\* the end of the maximal run of blanks that starts at i (i - 1 when none)
RECURSIVE BlankRunEnd(_, _)
BlankRunEnd(s, i) == IF i <= Len(s) /\ s[i] = " " THEN BlankRunEnd(s, i + 1) ELSE i - 1

\* re.search(r"\bq[1-4]\b|quarter\s*\d\b", ql)
quarter_like(ql) ==
    \/ _Q_RE(ql) # 0
    \/ \E i \in 1..Len(ql) :
        /\ MatchAt(ql, <<"q","u","a","r","t","e","r">>, i)
        /\ LET j == BlankRunEnd(ql, i + 7) + 1
           IN  j <= Len(ql) /\ IsDigit(ql[j]) /\ WordBoundary(ql, j + 1)

\* re.search(r"\btop\s+\d+\b", ql)
topk_like(ql) ==
    \E i \in 1..Len(ql) :
        /\ MatchAt(ql, <<"t","o","p">>, i)
        /\ WordBoundary(ql, i)
        /\ LET j == BlankRunEnd(ql, i + 3) + 1
           IN  /\ j > i + 3
               /\ j <= Len(ql) /\ IsDigit(ql[j])
               /\ WordBoundary(ql, DigitRunEnd(ql, j) + 1)

\* the rule-based part of detect_type: the type, or "llm" when the text
\* generation collaborator is asked
RuleType(q) ==
    IF q = <<>> \/ Strip(q) = <<>> THEN "text"
    ELSE
    LET ql == LowerStr(q)
        has_agg == AnyIn(agg_words, ql) \/ AnyIn(analytic_phrases, ql)
        has_compare == AnyIn(compare_words, ql)
        has_explain == \/ AnyIn(explain_words, ql)
                       \/ StartsWith(Strip(ql), <<"w","h","y">>)
                       \/ StartsWith(Strip(ql), <<"e","x","p","l","a","i","n">>)
    IN  IF has_agg \/ has_compare \/ number_like(ql) \/ quarter_like(ql) \/ topk_like(ql)
        THEN (IF has_explain THEN "hybrid" ELSE "analytical")
        ELSE IF has_explain /\ (Contains(ql, <<"i","n","s","i","g","h","t">>) \/ Contains(ql, <<"i","n","t","e","r","p","r","e","t">>))
        THEN "hybrid"
        ELSE "llm"

\* the normalisation of the collaborator's answer
LlmType(content) ==
    LET result == LowerStr(Strip(content))
    IN  IF Contains(result, <<"h","y","b","r","i","d">>) THEN "hybrid"
        ELSE IF Contains(result, <<"a","n","a","l","y","t","i","c","a","l">>) THEN "analytical"
        ELSE "text"

\* C18 mutant: a classifier that asks the collaborator before its rules
detect_type_asks_first(q, content) ==
    IF q = <<>> \/ Strip(q) = <<>> THEN "text"
    ELSE IF LlmType(content) # "text" \/ RuleType(q) = "llm" THEN LlmType(content)
    ELSE RuleType(q)

detect_type(q, content) == IF RuleType(q) = "llm" THEN LlmType(content) ELSE RuleType(q)

(***************************************************************************)
(* State                                                                   *)
(***************************************************************************)
VARIABLES
    pc,             \* position of answer_query / analyze_table
    question,       \* the request's question
    vs_docs,        \* vector store: metadata of the stored records
    tables_catalog, \* row store: <<file_key, table_index>> -> column_names, n_rows
    table_rows,     \* row store: <<file_key, table_index>> -> data of the rows
    t,              \* detect_type's result
    fk, ti,         \* the pair _pick_table returned
    headers, samples, kinds,
    llm_plan,       \* the drafting collaborator's response to the plan prompt
    plan,
    validations,    \* what each call of _validate_and_normalize returned, in order
    fallback,       \* the auto-synthesis block of analyze_table ran
    sql, params,
    rows,           \* what _run_sql returned
    analysis,       \* analyze_table's return value
    result,         \* answer_query's return value
    raised,         \* the exception that left answer_query, "" when none
    _engine,        \* base._engine: 0 for None, else the engine object
    _vectorstore,   \* vectors._vectorstore: 0 for None, else the PGVector object
    created,        \* how many engines and vector stores were constructed
    thread          \* each request thread: its position and what it was given

\* the request threads that make their first calls together
NThreads == 2

vars == <<pc, question, vs_docs, tables_catalog, table_rows, t, fk, ti, headers, samples,
          kinds, llm_plan, plan, validations, fallback, sql, params, rows, analysis,
          result, raised, _engine, _vectorstore, created, thread>>

(***************************************************************************)
(* The stores after ingestion.  Column names are what normalize_header     *)
(* writes (lower case, [0-9a-z_], never empty); a cell is str() of the     *)
(* value coerce_value stored.                                              *)
(***************************************************************************)
DocA == <<"d","o","c","A">>
DocB == <<"d","o","c","B">>

KeySales == <<DocA, 0>>
KeyNotes == <<DocB, 1>>
KeyBare  == <<DocA, 3>>

SalesHeaders == <<<<"r","e","g","i","o","n">>, <<"y","e","a","r">>, <<"a","m","t">>, <<"q","1">>, <<"n","e","t","_","a","m","t">>>>
NotesHeaders == <<<<"n","a","m","e">>, <<"w","h","e","n">>, <<"n","o","t","e">>>>

\* the dict {hs[i]: vs[i]}
RowOf(hs, vs) == [c \in Range(hs) |-> vs[CHOOSE i \in DOMAIN hs : hs[i] = c]]

SalesRows ==
    << RowOf(SalesHeaders, <<<<"e","a","s","t">>, <<"2","0","2","3">>, <<"1","2","0","0">>, <<"1","0">>, <<"7",".","5">>>>),
       RowOf(SalesHeaders, <<<<"w","e","s","t">>, <<"2","0","2","4">>, <<"3","5">>, <<"7">>, <<"-","2">>>>) >>
NotesRows ==
    << RowOf(NotesHeaders, <<<<"b","o","b">>, <<"2","0","2","4","-","0","1","-","0","5">>, <<"n","/","a">>>>),
       RowOf(NotesHeaders, <<<<"a","m","y">>, <<"2","0","2","4","-","0","2","-","0","1"," ","1","0",":","1","1",":","1","2">>, <<"1","2"," ","j","a","n">>>>) >>

Catalog ==
    (KeySales :> [column_names |-> SalesHeaders, n_rows |-> Len(SalesRows)])
    @@ (KeyNotes :> [column_names |-> NotesHeaders, n_rows |-> Len(NotesRows)])
    @@ (KeyBare :> [column_names |-> <<>>, n_rows |-> 0])
RowStore == (KeySales :> SalesRows) @@ (KeyNotes :> NotesRows) @@ (KeyBare :> <<>>)
SchemaDocs ==
    { [type |-> "table_schema", file_key |-> key[1], table_index |-> key[2]] :
        key \in DOMAIN Catalog }

(***************************************************************************)
(* Ingestion of a document: upsert_document and persist_docling_tables     *)
(***************************************************************************)
\* re.sub(r"\s+", "_", ...) then re.sub(r"[^0-9a-zA-Z_]", "", ...), from
\* character i on
RECURSIVE HeaderChars(_, _)
HeaderChars(s, i) ==
    IF i > Len(s) THEN <<>>
    ELSE IF s[i] = " "
    THEN (IF i > 1 /\ s[i - 1] = " " THEN <<>> ELSE <<"_">>) \o HeaderChars(s, i + 1)
    ELSE IF IsWordCh(s[i]) THEN <<s[i]>> \o HeaderChars(s, i + 1)
    ELSE HeaderChars(s, i + 1)

normalize_header(h) ==
    LET s == LowerStr(HeaderChars(Strip(h), 1))
    IN  IF s = <<>> THEN <<"c","o","l">> ELSE s

\* coerce_value of a cell that is not number-like, as the cell reads in
\* data->>'col': the stripped text, <<>> (None) for a blank cell
coerce_value(v) == Strip(v)

\* the document converted by Docling: its tables hold the headers and the
\* rows' cells as table_to_structured extracts them; the first table has
\* neither headers nor rows
NotesDocument ==
    [file_key |-> DocB,
     tables |-> << [headers |-> <<>>, rows |-> <<>>],
                   [headers |-> <<<<"N","a","m","e">>, <<" ","W","h","e","n"," ">>, <<"N","o","t","e","!">>>>,
                    rows |-> << <<<<" ","b","o","b">>, <<"2","0","2","4","-","0","1","-","0","5">>, <<"n","/","a">>>>,
                                <<<<"a","m","y">>, <<"2","0","2","4","-","0","2","-","0","1"," ","1","0",":","1","1",":","1","2">>, <<"1","2"," ","j","a","n"," ">>>> >>] >>]

\* the stores persist_docling_tables leaves for doc: the tables that have
\* headers or rows get their catalog record replaced and their rows upserted
\* one by one on (file_key, table_index, row_index), so stored rows beyond
\* the new ones stay; schema holds the table_schema records it adds when it
\* is given a vector store
persist_docling_tables(doc, file_key, vectorstore) ==
    LET written == {i \in DOMAIN doc.tables :
                       ~(doc.tables[i].headers = <<>> /\ doc.tables[i].rows = <<>>)}
        norm_headers(tbl) == [j \in DOMAIN tbl.headers |-> normalize_header(tbl.headers[j])]
        norm_rows(tbl) ==
            [r \in DOMAIN tbl.rows |->
                RowOf(norm_headers(tbl),
                      [j \in DOMAIN tbl.headers |-> coerce_value(tbl.rows[r][j])])]
        stored(key) == Get(table_rows, key, <<>>)
        upserted(key) == norm_rows(doc.tables[key[2] + 1])
    IN  [catalog |-> [key \in {<<file_key, i - 1>> : i \in written} |->
                         [column_names |-> norm_headers(doc.tables[key[2] + 1]),
                          n_rows |-> Len(upserted(key))]]
                     @@ tables_catalog,
         rows    |-> [key \in {<<file_key, i - 1>> : i \in written} |->
                         upserted(key)
                         \o SubSeq(stored(key), Len(upserted(key)) + 1, Len(stored(key)))]
                     @@ table_rows,
         schema  |-> IF vectorstore
                     THEN { [type |-> "table_schema", file_key |-> file_key,
                             table_index |-> i - 1] : i \in written }
                     ELSE {}]

(***************************************************************************)
(* Inputs: questions and the collaborators' responses                      *)
(***************************************************************************)
Questions ==
    { <<"t","o","t","a","l"," ","a","m","t">>, <<"a","m","t"," ","b","y"," ","r","e","g","i","o","n">>, <<"M","a","x"," ","n","e","t"," ","a","m","t"," ","p","e","r"," ","r","e","g","i","o","n">>, <<"h","o","w"," ","m","a","n","y"," ","r","o","w","s">>,
      <<"t","o","p"," ","1"," ","a","m","t"," ","i","n"," ","q","u","a","r","t","e","r"," ","1">>, <<"w","h","y"," ","t","o","t","a","l"," ","a","m","t"," ","q","1">>, <<"e","x","p","l","a","i","n"," ","i","n","s","i","g","h","t","s">>,
      <<" "," ">> }

\* the classification collaborator's answers
ClassifyAnswers == { <<"A","n","a","l","y","t","i","c","a","l">>, <<" ","h","y","b","r","i","d">>, <<"t","e","x","t">>, <<"d","u","n","n","o">> }

\* the text collaborator's answer
TextAnswer == <<"a","n","s">>

\* a drafted aggregate, filter and order_by entry
Agg(func, col_id) == [func |-> func, col_id |-> col_id]
AggAs(func, col_id, as) == ("func" :> func) @@ ("col_id" :> col_id) @@ ("as" :> as)
Flt(col_id, op, value) == [col_id |-> col_id, op |-> op, value |-> value]
ObCol(column, dir) == [column |-> column, dir |-> dir]
ObId(col_id, dir) == [col_id |-> col_id, dir |-> dir]

\* the largest column id a draft uses; the widest table has the ids 0..4
MaxColId == 5
\* the longest sequences of aggregates and of filters drawn freely
MaxAggs == 2
MaxFilters == 2

\* all sequences over S of length at most n
SeqsUpTo(S, n) == UNION { [1..m -> S] : m \in 0..n }

\* sequences of at most n elements of Core, and the elements of Extra alone,
\* before and after each element of Core
Lists(Core, Extra, n) ==
    SeqsUpTo(Core, n)
    \cup { <<x>> : x \in Extra }
    \cup { <<c, x>> : c \in Core, x \in Extra }
    \cup { <<x, c>> : c \in Core, x \in Extra }

CoreAggs ==
    { AggAs(<<"s","u","m">>, 2, <<"t","o","t">>),
      [func |-> <<"c","o","u","n","t">>],
      Agg(<<"c","o","u","n","t">>, MaxColId),
      Agg(<<"s","u","m">>, 0) }
ExtraAggs ==
    { Agg(<<"m","a","x">>, 2),
      Agg(<<"m","e","d","i","a","n">>, 2),
      Agg(<<"a","v","g">>, MaxColId),
      [func |-> <<"m","i","n">>],
      Agg(<<"s","u","m">>, JsonNull),
      AggAs(<<"m","i","n">>, 4, <<"a","\"","b">>) }

CoreFilters ==
    { Flt(1, "=", StrV(<<"2","0","2","3">>)),
      Flt(2, ">=", IntV(2023)),
      Flt(3, "in", ListV(<<StrV(<<"Q","1">>), StrV(<<"x">>)>>)),
      Flt(2, "between", ListV(<<IntV(1), IntV(9)>>)) }
ExtraFilters ==
    { Flt(2, " >", StrV(<<"5">>)),
      Flt(MaxColId, "=", StrV(<<"x">>)),
      Flt(2, ">", StrV(<<"5">>)),
      Flt(2, "like", StrV(<<"x">>)),
      Flt(0, "in", ListV(<<StrV(<<"a">>), StrV(<<"q","u","a","r","t","e","r","3">>)>>)),
      Flt(0, "contains", StrV(<<"1","8","5","0">>)),
      [op |-> "=", value |-> StrV(<<"x">>)],
      [col_id |-> 0, op |-> "!="],
      Flt(0, "in", StrV(<<"a">>)),
      Flt(2, "between", ListV(<<IntV(1)>>)) }

ObLists ==
    { <<>>,
      <<ObCol(<<"t","o","t">>, <<"a","s","c">>)>>,
      <<ObCol(<<"s","e","c","r","e","t">>, <<"d","e","s","c">>)>>,
      <<ObCol(<<"r","e","g","i","o","n">>, <<"a","s","c",";"," ","d","r","o","p"," ","t","a","b","l","e"," ","x">>)>>,
      <<ObId(2, <<"A","S","C">>)>>,
      <<[col_id |-> 0]>>,
      <<ObId(MaxColId, <<"d","e","s","c">>), ObCol(<<"a","m","t">>, <<"D","e","s","c">>)>> }


\* a drafted plan: the JSON object of the response
Draft(aggs, gb, fs, ob, limit) ==
    [aggregates |-> aggs, group_by |-> gb, filters |-> fs, order_by |-> ob, limit |-> limit,
     table |-> [file_key |-> <<"o","t","h","e","r">>, table_index |-> 7]]

BaseAggs == { <<AggAs(<<"s","u","m">>, 2, <<"t","o","t">>)>>, <<>> }
BaseGroupBy == { <<>>, <<MaxColId, 0, -1, 3>> }

Drafts ==
    { Draft(aggs, <<>>, <<>>, <<>>, 0) : aggs \in Lists(CoreAggs, ExtraAggs, MaxAggs) }
    \cup { Draft(<<AggAs(<<"s","u","m">>, 2, <<"t","o","t">>)>>, <<>>, fs, <<>>, 0) :
             fs \in Lists(CoreFilters, ExtraFilters, MaxFilters) }
    \cup { Draft(aggs, gb, <<>>, ob, limit) :
             aggs \in BaseAggs, gb \in BaseGroupBy, ob \in ObLists, limit \in {0, 3} }
    \cup { [filters |-> <<[op |-> "??"]>>],
           [aggregates |-> <<Agg(<<"s","u","m">>, 0)>>, error |-> <<"o","o","p","s">>],
           [aggregates |-> <<Agg(<<"m","a","x">>, 2)>>, group_by |-> <<0>>],
           [limit |-> 2],
           [aggregates |-> <<Agg(<<"s","u","m">>, 2)>>, limit |-> -1] }

\* the responses to the plan prompt: prose, broken JSON, a JSON object
NoJson == [raw |-> <<>>]
PlanResponses ==
    { [text |-> <<"S","o","r","r","y",","," ","n","o"," ","p","l","a","n",".">>, parses |-> FALSE, json |-> NoJson],
      [text |-> <<"}"," ","{">>, parses |-> FALSE, json |-> NoJson],
      [text |-> <<"{","\"","f","i","l","t","e","r","s","\"",":"," ","[","}">>, parses |-> FALSE, json |-> NoJson] }
    \cup { [text |-> <<"P","l","a","n",":"," ","{",".",".",".","}">>, parses |-> TRUE, json |-> d] : d \in Drafts }

(***************************************************************************)
(* Initial state: a request arrives at answer_query                        *)
(***************************************************************************)
Init ==
    /\ pc = "start"
    /\ question \in Questions
    /\ \/ /\ vs_docs = SchemaDocs
          /\ tables_catalog = Catalog
          /\ table_rows = RowStore
       \/ /\ vs_docs = {}
          /\ tables_catalog = <<>>
          /\ table_rows = <<>>
    /\ t = ""
    /\ fk = <<>>
    /\ ti = 0
    /\ headers = <<>>
    /\ samples = <<>>
    /\ kinds = <<>>
    /\ llm_plan = <<>>
    /\ plan = <<>>
    /\ validations = <<>>
    /\ fallback = FALSE
    /\ sql = <<>>
    /\ params = <<>>
    /\ rows = <<>>
    /\ analysis = <<>>
    /\ result = <<>>
    /\ raised = ""
    /\ _engine = 0
    /\ _vectorstore = 0
    /\ created = [engine |-> 0, vectorstore |-> 0]
    /\ thread = [th \in 1..NThreads |-> [pc |-> "get_engine", engine |-> 0, vectorstore |-> 0]]

Raise(exc) == pc' = "raised" /\ raised' = exc

(***************************************************************************)
(* answer_query                                                            *)
(***************************************************************************)
\* upsert_document(meta) for a document that is not in the stores yet; texts
\* are the non-empty chunks of the document, and persist_docling_tables is
\* called without a vector store
Ingest ==
    /\ UNCHANGED <<_engine, _vectorstore, created, thread>>
    /\ pc = "start"
    /\ <<NotesDocument.file_key, 1>> \notin DOMAIN tables_catalog
    /\ \E texts \in {0, 1} :
        IF texts = 0
        THEN UNCHANGED <<vs_docs, tables_catalog, table_rows>>
        ELSE LET written == persist_docling_tables(NotesDocument, NotesDocument.file_key, FALSE)
             IN  /\ vs_docs' = vs_docs \cup {[type |-> "hybrid", file_key |-> NotesDocument.file_key]}
                                       \cup written.schema
                 /\ tables_catalog' = written.catalog
                 /\ table_rows' = written.rows
    /\ UNCHANGED <<pc, question, t, fk, ti, headers, samples, kinds, llm_plan, plan,
                   validations, fallback, sql, params, rows, analysis, result, raised>>

\* t = detect_type(q)
DetectType ==
    /\ UNCHANGED <<_engine, _vectorstore, created, thread>>
    /\ pc = "start"
    /\ \E content \in ClassifyAnswers : t' = detect_type(question, content)
    /\ pc' = "routed"
    /\ UNCHANGED <<question, vs_docs, tables_catalog, table_rows, fk, ti, headers, samples,
                   kinds, llm_plan, plan, validations, fallback, sql, params, rows,
                   analysis, result, raised>>

\* answer_text(q) for a text question, answer_text(q, table_part['answer']) for
\* a hybrid one
AnswerText ==
    /\ UNCHANGED <<_engine, _vectorstore, created, thread>>
    /\ \/ pc = "routed" /\ t = "text"
       \/ pc = "analyzed" /\ t = "hybrid"
    /\ result' = [type |-> (IF t = "hybrid" THEN "hybrid" ELSE "text"), answer |-> TextAnswer]
    /\ pc' = "done"
    /\ UNCHANGED <<question, vs_docs, tables_catalog, table_rows, t, fk, ti, headers, samples,
                   kinds, llm_plan, plan, validations, fallback, sql, params, rows,
                   analysis, raised>>

\* return a, for an analytical question
ReturnAnalysis ==
    /\ UNCHANGED <<_engine, _vectorstore, created, thread>>
    /\ pc = "analyzed" /\ t = "analytical"
    /\ result' = analysis
    /\ pc' = "done"
    /\ UNCHANGED <<question, vs_docs, tables_catalog, table_rows, t, fk, ti, headers, samples,
                   kinds, llm_plan, plan, validations, fallback, sql, params, rows,
                   analysis, raised>>

(***************************************************************************)
(* analyze_table                                                           *)
(***************************************************************************)
\* fk, ti = _pick_table(question, file_key): the first hit of the similarity
\* search over the table_schema records, in whatever order it ranks them
PickTable ==
    /\ UNCHANGED <<_engine, _vectorstore, created, thread>>
    /\ pc = "routed" /\ t \in {"analytical", "hybrid"}
    /\ LET hits == {doc \in vs_docs : doc.type = "table_schema"}
       IN  IF hits = {}
           THEN Raise("ValueError") /\ UNCHANGED <<fk, ti>>
           ELSE \E doc \in hits :
                    /\ fk' = doc.file_key
                    /\ ti' = doc.table_index
                    /\ pc' = "picked"
                    /\ UNCHANGED raised
    /\ UNCHANGED <<question, vs_docs, tables_catalog, table_rows, t, headers, samples,
                   kinds, llm_plan, plan, validations, fallback, sql, params, rows,
                   analysis, result>>

\* _fetch_headers
FetchedHeaders == Get(tables_catalog, <<fk, ti>>, [column_names |-> <<>>]).column_names

\* headers, samples and kinds; an early return when the table has no columns
FetchSchema ==
    /\ UNCHANGED <<_engine, _vectorstore, created, thread>>
    /\ pc = "picked"
    /\ headers' = FetchedHeaders
    /\ IF FetchedHeaders = <<>>
       THEN /\ analysis' = [type |-> "analytical",
                            answer |-> <<"I"," ","c","o","u","l","d","n","'","t"," ","f","i","n","d"," ","a","n","y"," ","c","o","l","u","m","n","s"," ","i","n"," ","t","h","e"," ","s","e","l","e","c","t","e","d"," ","t","a","b","l","e",".">>]
            /\ pc' = "analyzed"
            /\ UNCHANGED <<samples, kinds>>
       ELSE LET sample_cols == Take(FetchedHeaders, SampleCols)
                got == _trim_samples(_sample_rows(Get(table_rows, <<fk, ti>>, <<>>), sample_cols))
            IN  /\ samples' = got
                /\ kinds' = _infer_kinds(FetchedHeaders, IF got # <<>> THEN got ELSE << <<>> >>)
                /\ pc' = "schema"
                /\ UNCHANGED analysis
    /\ UNCHANGED <<question, vs_docs, tables_catalog, table_rows, t, fk, ti,
                   llm_plan, plan, validations, fallback, sql, params, rows, result, raised>>

\* plan = _make_plan(...)
MakePlan ==
    /\ UNCHANGED <<_engine, _vectorstore, created, thread>>
    /\ pc = "schema"
    /\ \E resp \in PlanResponses :
        LET made == _make_plan(resp, question, headers, fk, ti, kinds)
        IN  /\ llm_plan' = resp
            /\ IF made.raised # ""
               THEN Raise(made.raised) /\ UNCHANGED plan
               ELSE plan' = made.plan /\ pc' = "planned" /\ UNCHANGED raised
    /\ UNCHANGED <<question, vs_docs, tables_catalog, table_rows, t, fk, ti, headers, samples,
                   kinds, validations, fallback, sql, params, rows, analysis, result>>

\* ok, reason = _validate_and_normalize(plan, headers); validations records
\* the (ok, reason) of every call that returned
Validate ==
    /\ UNCHANGED <<_engine, _vectorstore, created, thread>>
    /\ pc = "planned"
    /\ LET v == _validate_and_normalize(plan)
       IN  /\ plan' = v.plan
           /\ IF v.raised # ""
              THEN Raise(v.raised) /\ UNCHANGED validations
              ELSE /\ validations' = Append(validations, [ok |-> v.ok, reason |-> v.reason])
                   /\ pc' = "validated"
                   /\ UNCHANGED raised
    /\ UNCHANGED <<question, vs_docs, tables_catalog, table_rows, t, fk, ti, headers, samples,
                   kinds, llm_plan, fallback, sql, params, rows, analysis, result>>

\* C8 mutant: a fallback condition that ignores ok
NeedsFallback_ignores_ok == Get(plan, "aggregates", <<>>) = <<>>

\* (not ok) or (not plan.get("aggregates"))
NeedsFallback ==
    \/ ~validations[Len(validations)].ok
    \/ Get(plan, "aggregates", <<>>) = <<>>

CountRows == (("func" :> <<"c","o","u","n","t">>) @@ ("col_id" :> 0) @@ ("as" :> <<"c","o","u","n","t","_","r","o","w","s">>)
              @@ ("column" :> <<>>))

\* C13 mutant: an auto-synthesis block that counts rows only when the intent
\* is count or no numeric column is chosen
Synthesize_intent_unchecked(p, q, hs, ks) ==
    LET intent == _detect_intent(q)
        best   == _choose_best_numeric(hs, ks, q, _period_tag(q))
        p0 == Put(Put(Put(p, "aggregates", <<>>), "group_by", <<>>), "filters", <<>>)
        ids == IF "_columns_index" \in DOMAIN p0
               THEN {i \in DOMAIN p0["_columns_index"] : p0["_columns_index"][i] = best}
               ELSE {}
    IN  IF intent = <<"c","o","u","n","t">> \/ best = <<>> \/ ids = {}
        THEN [raised |-> "", plan |-> Put(p0, "aggregates", <<CountRows>>)]
        ELSE [raised |-> "",
              plan |-> Put(p0, "aggregates",
                           << ("func" :> intent)
                              @@ ("col_id" :> (CHOOSE i \in ids : \A j \in ids : i <= j))
                              @@ ("as" :> (intent \o <<"_">> \o best)) >>)]

\* the auto-synthesis block: [raised, plan]
Synthesize(p, q, hs, ks) ==
    LET intent == _detect_intent(q)
        period == _period_tag(q)
        best   == _choose_best_numeric(hs, ks, q, period)
        p0 == Put(Put(Put(p, "aggregates", <<>>), "group_by", <<>>), "filters", <<>>)
    IN  IF intent = <<"c","o","u","n","t">> \/ intent = <<>> \/ best = <<>>
        THEN [raised |-> "", plan |-> Put(p0, "aggregates", <<CountRows>>)]
        ELSE IF "_columns_index" \notin DOMAIN p0
        THEN [raised |-> "KeyError", plan |-> p0]
        ELSE LET idx == p0["_columns_index"]
                 ids == {i \in DOMAIN idx : idx[i] = best}
             IN  IF ids # {}
                 THEN [raised |-> "",
                       plan |-> Put(p0, "aggregates",
                                    << ("func" :> intent)
                                       @@ ("col_id" :> (CHOOSE i \in ids : \A j \in ids : i <= j))
                                       @@ ("as" :> (intent \o <<"_">> \o best)) >>)]
                 ELSE [raised |-> "", plan |-> Put(p0, "aggregates", <<CountRows>>)]

\* C23 mutant: a fallback that asks for a new draft
Fallback_redrafts ==
    /\ UNCHANGED <<_engine, _vectorstore, created, thread>>
    /\ pc = "validated"
    /\ NeedsFallback
    /\ ~fallback
    /\ pc' = "schema"
    /\ fallback' = TRUE
    /\ UNCHANGED <<question, vs_docs, tables_catalog, table_rows, t, fk, ti, headers, samples,
                   kinds, llm_plan, plan, validations, sql, params, rows, analysis, result, raised>>

\* the auto-synthesis block and the second _validate_and_normalize
Fallback ==
    /\ UNCHANGED <<_engine, _vectorstore, created, thread>>
    /\ pc = "validated"
    /\ NeedsFallback
    /\ LET s == Synthesize(plan, question, headers, kinds)
           v == _validate_and_normalize(s.plan)
       IN  IF s.raised # ""
           THEN /\ Raise(s.raised)
                /\ plan' = s.plan
                /\ UNCHANGED validations
           ELSE /\ plan' = v.plan
                /\ IF v.raised # ""
                   THEN Raise(v.raised) /\ UNCHANGED validations
                   ELSE /\ validations' = Append(validations, [ok |-> v.ok, reason |-> v.reason])
                        /\ pc' = "ready"
                        /\ UNCHANGED raised
    /\ fallback' = TRUE
    /\ UNCHANGED <<question, vs_docs, tables_catalog, table_rows, t, fk, ti, headers, samples,
                   kinds, llm_plan, sql, params, rows, analysis, result>>

\* sql, params = _build_sql(plan)
BuildSql ==
    /\ UNCHANGED <<_engine, _vectorstore, created, thread>>
    /\ \/ pc = "validated" /\ ~NeedsFallback
       \/ pc = "ready"
    /\ LET b == _build_sql(plan)
       IN  /\ plan' = b.plan
           /\ IF b.raised # ""
              THEN Raise(b.raised) /\ UNCHANGED <<sql, params>>
              ELSE /\ sql' = b.sql
                   /\ params' = b.params
                   /\ pc' = "compiled"
                   /\ UNCHANGED raised
    /\ UNCHANGED <<question, vs_docs, tables_catalog, table_rows, t, fk, ti, headers, samples,
                   kinds, llm_plan, validations, fallback, rows, analysis, result>>

\* the most rows a result set has
MaxRows == 6

\* the column names of the result set: the aliases of the SELECT list
ResultColumns(p) ==
    LET gb == Get(p, "group_by", <<>>)
        aggs == Get(p, "aggregates", <<>>)
    IN  IF gb = <<>> /\ aggs = <<>> THEN {<<"c","o","u","n","t","_","r","o","w","s">>}
        ELSE Range(gb) \cup {aggs[i]["as"] : i \in DOMAIN aggs}

\* the cells of the result sets
Cells == { NumV(123400), NumV(250), NoneV }

\* the result sets the row store can return for the compiled statement: an
\* aggregate query without GROUP BY returns one row, a grouped one any number
\* of rows up to its LIMIT; a grouped column is the text _col_txt extracts
ResultSets(p) ==
    LET n == Get(p, "limit", 0)
        counts == IF Get(p, "group_by", <<>>) = <<>> THEN {1}
                  ELSE {c \in {0, 1, MaxRows} : n <= 0 \/ c <= n}
    IN  { [i \in 1..c |-> [col \in ResultColumns(p) |->
                               IF col \in Range(Get(p, "group_by", <<>>))
                               THEN StrV(<<"e","a","s","t">>) ELSE cell]] :
          c \in counts, cell \in Cells }

\* rows = _run_sql(sql, params)
RunSql ==
    /\ UNCHANGED <<_engine, _vectorstore, created, thread>>
    /\ pc = "compiled"
    /\ rows' \in ResultSets(plan)
    /\ pc' = "executed"
    /\ UNCHANGED <<question, vs_docs, tables_catalog, table_rows, t, fk, ti, headers, samples,
                   kinds, llm_plan, plan, validations, fallback, sql, params, analysis,
                   result, raised>>

\* the answer of analyze_table's last lines
Summary(p, rs) ==
    IF _summarize_scalar(p, rs) # <<>> THEN _summarize_scalar(p, rs)
    ELSE IF _summarize_grouped(p, rs) # <<>> THEN _summarize_grouped(p, rs)
    ELSE IF rs # <<>> /\ <<"c","o","u","n","t","_","r","o","w","s">> \in DOMAIN rs[1]
    THEN <<"F","o","u","n","d"," ">> \o PyStr(IF rs[1][<<"c","o","u","n","t","_","r","o","w","s">>].k = "num"
                           THEN IntV(rs[1][<<"c","o","u","n","t","_","r","o","w","s">>].n \div 100)
                           ELSE rs[1][<<"c","o","u","n","t","_","r","o","w","s">>]) \o <<" ","r","o","w","s",".">>
    ELSE <<"N","o"," ","r","o","w","s"," ","m","a","t","c","h","e","d"," ","t","h","e"," ","c","o","n","d","i","t","i","o","n","s",".">>

Summarize ==
    /\ UNCHANGED <<_engine, _vectorstore, created, thread>>
    /\ pc = "executed"
    /\ analysis' = [type |-> "analytical", answer |-> Summary(plan, rows)]
    /\ pc' = "analyzed"
    /\ UNCHANGED <<question, vs_docs, tables_catalog, table_rows, t, fk, ti, headers, samples,
                   kinds, llm_plan, plan, validations, fallback, sql, params, rows,
                   result, raised>>

(***************************************************************************)
(* The singletons of the process: base.get_engine, vectors.get_vectorstore *)
(***************************************************************************)
\* get_engine() as called by request thread th (init_db), one step at a time:
\* the test of the global, the construction and assignment, the return
get_engine(th) ==
    /\ \/ /\ thread[th].pc = "get_engine"
          /\ thread' = [thread EXCEPT ![th].pc =
                            IF _engine = 0 THEN "create_engine" ELSE "return_engine"]
          /\ UNCHANGED <<_engine, created>>
       \/ /\ thread[th].pc = "create_engine"
          /\ created' = [created EXCEPT !.engine = @ + 1]
          /\ _engine' = created.engine + 1
          /\ thread' = [thread EXCEPT ![th].pc = "return_engine"]
       \/ /\ thread[th].pc = "return_engine"
          /\ thread' = [thread EXCEPT ![th].engine = _engine, ![th].pc = "get_vectorstore"]
          /\ UNCHANGED <<_engine, created>>
    /\ UNCHANGED <<pc, question, vs_docs, tables_catalog, table_rows, t, fk, ti, headers,
                   samples, kinds, llm_plan, plan, validations, fallback, sql, params, rows,
                   analysis, result, raised, _vectorstore>>

\* get_vectorstore() as called by request thread th, one step at a time
get_vectorstore(th) ==
    /\ \/ /\ thread[th].pc = "get_vectorstore"
          /\ thread' = [thread EXCEPT ![th].pc =
                            IF _vectorstore = 0 THEN "PGVector" ELSE "return_vectorstore"]
          /\ UNCHANGED <<_vectorstore, created>>
       \/ /\ thread[th].pc = "PGVector"
          /\ created' = [created EXCEPT !.vectorstore = @ + 1]
          /\ _vectorstore' = created.vectorstore + 1
          /\ thread' = [thread EXCEPT ![th].pc = "return_vectorstore"]
       \/ /\ thread[th].pc = "return_vectorstore"
          /\ thread' = [thread EXCEPT ![th].vectorstore = _vectorstore, ![th].pc = "served"]
          /\ UNCHANGED <<_vectorstore, created>>
    /\ UNCHANGED <<pc, question, vs_docs, tables_catalog, table_rows, t, fk, ti, headers,
                   samples, kinds, llm_plan, plan, validations, fallback, sql, params, rows,
                   analysis, result, raised, _engine>>

Next ==
    \/ Ingest
    \/ DetectType
    \/ AnswerText
    \/ ReturnAnalysis
    \/ PickTable
    \/ FetchSchema
    \/ MakePlan
    \/ Validate
    \/ Fallback
    \/ BuildSql
    \/ RunSql
    \/ Summarize

Spec == Init /\ [][Next]_vars

(***************************************************************************)
(* Properties of the validated plan and of the compiled statement          *)
(***************************************************************************)
\* the last _validate_and_normalize returned ok
Accepted == validations # <<>> /\ validations[Len(validations)].ok

\* a statement has been compiled for this request
Compiled == sql # <<>>

\* the column ids of the resolved table
ColumnIds == 0..(Len(headers) - 1)

\* C1: after _validate_and_normalize has returned ok, every col_id held by the
\* plan's aggregates (count aggregates included) and filters is a column
\* index in [0, len(headers)), and every group_by entry is a header of the
\* resolved table.
C1_ColumnIdsResolve ==
    (pc \in {"validated", "ready"} /\ Accepted) =>
        /\ \A i \in DOMAIN Get(plan, "aggregates", <<>>) :
              "col_id" \in DOMAIN plan.aggregates[i] => plan.aggregates[i].col_id \in ColumnIds
        /\ \A i \in DOMAIN Get(plan, "filters", <<>>) :
              "col_id" \in DOMAIN plan.filters[i] => plan.filters[i].col_id \in ColumnIds
        /\ \A i \in DOMAIN Get(plan, "group_by", <<>>) : plan.group_by[i] \in Range(headers)

\* the position of template text s in the statement, 0 when it is absent
PieceAt(s) ==
    IF \E i \in DOMAIN sql : sql[i] = Lit(s)
    THEN CHOOSE i \in DOMAIN sql : sql[i] = Lit(s) /\ \A j \in 1..(i - 1) : sql[j] # Lit(s)
    ELSE 0

\* the pieces of the WHERE clause: from the WHERE keyword to the next clause
WhereEnd ==
    LET ends == {i \in DOMAIN sql : sql[i] \in {Lit(" GROUP BY "), Lit(" ORDER BY "), Lit(" LIMIT ")}}
    IN  IF ends = {} THEN Len(sql) + 1 ELSE CHOOSE i \in ends : \A j \in ends : i <= j
WhereClause == SubSeq(sql, PieceAt(" FROM table_rows WHERE ") + 1, WhereEnd - 1)

\* C2: every compiled statement has a WHERE clause that starts with
\* file_key = :fk AND table_index = :ti, every further predicate is joined to
\* them by AND, and the bound fk and ti are the pair _pick_table returned for
\* this question, whatever "table" the drafted plan carried.
C2_TablePinned ==
    Compiled =>
        /\ PieceAt(" FROM table_rows WHERE ") # 0
        /\ Len(WhereClause) >= 3
        /\ SubSeq(WhereClause, 1, 3) =
              <<Lit("file_key = :fk"), Lit(" AND "), Lit("table_index = :ti")>>
        /\ Len(WhereClause) > 3 => WhereClause[4] = Lit(" AND ")
        /\ params["fk"] = StrV(fk)
        /\ params["ti"] = IntV(ti)
        /\ [type |-> "table_schema", file_key |-> fk, table_index |-> ti] \in vs_docs

\* C2 witness: a statement compiled from the drafted plan itself, which
\* named another table and carried filters
C2_Witness ==
    /\ pc = "compiled"
    /\ ~fallback
    /\ Get(llm_plan.json, "table", <<>>) = [file_key |-> <<"o","t","h","e","r">>, table_index |-> 7]
    /\ Len(WhereClause) > 3
    /\ params["fk"] = StrV(DocA)

\* s is a quoted identifier: "..." with every inner quote doubled
IsQuotedIdentifier(s) ==
    /\ Len(s) >= 2
    /\ s[1] = "\"" /\ s[Len(s)] = "\""
    /\ ~Contains(Replace(SubSeq(s, 2, Len(s) - 1), <<"\"", "\"">>, <<>>), <<"\"">>)

\* C3: in the statement compiled from a plan that passed validation, every
\* interpolated string is a quoted identifier, a header of the resolved table
\* or the keyword of an allowed function, except the ORDER BY direction,
\* which is exactly ASC or DESC.
C3_NoDraftedText ==
    (Compiled /\ Accepted) =>
        \A i \in DOMAIN sql :
            sql[i].k = "txt" =>
                IF i > 3 /\ sql[i - 3] = Lit(" ORDER BY ")
                THEN sql[i].c \in {<<"A","S","C">>, <<"D","E","S","C">>}
                ELSE \/ IsQuotedIdentifier(sql[i].c)
                     \/ sql[i].c \in Range(headers)
                     \/ sql[i].c \in {UpperStr(f) : f \in ALLOWED_FUNCS}

\* the aliases of the plan's aggregates
AggAliases == {plan.aggregates[i]["as"] : i \in DOMAIN Get(plan, "aggregates", <<>>)}

\* C4: in the statement compiled from a plan that passed validation, the
\* ORDER BY target is the quoted name of a header of the resolved table or of
\* an alias of one of the plan's aggregates, and every column the statement
\* reads or groups by is a header.
C4_KnownIdentifiers ==
    (Compiled /\ Accepted) =>
        /\ PieceAt(" ORDER BY ") # 0 =>
              sql[PieceAt(" ORDER BY ") + 1].c \in {_qid(x) : x \in Range(headers) \cup AggAliases}
        /\ \A i \in DOMAIN sql :
              (sql[i].k = "txt" /\ i > 1 /\ sql[i - 1] \in {Lit("(data->>'"),
                  Lit("(REGEXP_REPLACE(REGEXP_REPLACE(data->>'")}) => sql[i].c \in Range(headers)

IsPh(p) == p.k = "ph"

\* C5: the placeholders of a compiled statement are :p0, :p1, ... numbered
\* consecutively in order of appearance, none twice; the names bound in the
\* parameter map are fk, ti and exactly those placeholders; the WHERE clause
\* holds no interpolated number and no interpolated string but column names,
\* so that every filter value is in the parameter map only.
C5_Placeholders ==
    Compiled =>
        LET phs == SelectSeq(sql, IsPh)
        IN  /\ \A i \in DOMAIN phs : phs[i].n = i - 1
            /\ DOMAIN params = {"fk", "ti"} \cup {"p" \o ToString(phs[i].n) : i \in DOMAIN phs}
            /\ \A i \in DOMAIN WhereClause :
                  /\ WhereClause[i].k # "num"
                  /\ WhereClause[i].k = "txt" => WhereClause[i].c \in Range(headers)
            /\ Len(SelectSeq(WhereClause, IsPh)) = Len(phs)

\* C5 witness: a statement with an IN list and a BETWEEN, four placeholders
C5_Witness ==
    /\ pc = "compiled"
    /\ Len(SelectSeq(sql, IsPh)) = 4
    /\ \E i \in DOMAIN sql : sql[i] = Lit(" BETWEEN ")
    /\ \E i \in DOMAIN sql : sql[i] = Lit(" IN (")

\* the drafting collaborator's response held no JSON object, or held
\* brace-delimited text that json.loads rejects
NoPlanDrafted == "parses" \in DOMAIN llm_plan /\ ~llm_plan.parses

\* C6: when the response holds no JSON object or holds brace-delimited text
\* that is not JSON, analyze_table raises nothing, and when it returns it has
\* run the auto-synthesis block, compiled a statement and produced an answer
\* of type analytical.
C6_DraftErrorRecovered ==
    NoPlanDrafted =>
        /\ raised = ""
        /\ pc \in {"analyzed", "done"} =>
              fallback /\ Compiled /\ analysis.type = "analytical"

\* C7: when the schema similarity search has no hits, no exception leaves
\* analyze_table or answer_query, and an analytical or hybrid request ends
\* with an answer.
C7_NoTableAnswered ==
    vs_docs = {} =>
        /\ raised = ""
        /\ pc = "done" => "answer" \in DOMAIN result

\* the JSON object of the response and its aggregates and filters
DraftedPlan == llm_plan.json
DraftedAggs == Get(DraftedPlan, "aggregates", <<>>)
DraftedFilters == Get(DraftedPlan, "filters", <<>>)

\* the first _validate_and_normalize has returned (or raised) for this request
Validated == validations # <<>> /\ "parses" \in DOMAIN llm_plan /\ llm_plan.parses

\* cid is the id of a column of kind number
IsNumberColumn(cid) == cid \in ColumnIds /\ kinds[headers[cid + 1]] = "number"

\* a is a non-count aggregate whose column id is not a column of kind number
NonNumericAgg(a) ==
    /\ "func" \in DOMAIN a /\ a.func # <<"c","o","u","n","t">>
    /\ "col_id" \in DOMAIN a /\ ~IsNumberColumn(a.col_id)

\* a meets every check of the aggregates loop
ValidAgg(a) ==
    /\ "func" \in DOMAIN a /\ a.func \in {<<"s","u","m">>, <<"a","v","g">>, <<"c","o","u","n","t">>, <<"m","i","n">>, <<"m","a","x">>}
    /\ a.func # <<"c","o","u","n","t">> => ("col_id" \in DOMAIN a /\ IsNumberColumn(a.col_id))

\* the aggregate a of the drafted plan is not part of what is compiled: the
\* plan given to _build_sql has no aggregate of its function and column id,
\* and the statement applies its function to no column of its name
NotCompiled(a) ==
    /\ pc \in {"ready", "compiled", "executed", "analyzed", "done"} =>
          \A k \in DOMAIN Get(plan, "aggregates", <<>>) :
              ~(plan.aggregates[k].func = a.func /\ plan.aggregates[k].col_id = a.col_id)
    /\ (Compiled /\ a.col_id \in ColumnIds) =>
          \A i \in 1..(Len(sql) - 3) :
              ~(/\ sql[i] = Txt(UpperStr(a.func))
                /\ sql[i + 1] = Lit("(")
                /\ sql[i + 3] = Txt(headers[a.col_id + 1]))

FirstRejected(i) ==
    /\ i \in DOMAIN DraftedAggs
    /\ NonNumericAgg(DraftedAggs[i])
    /\ DraftedAggs[i].func \in {<<"s","u","m">>, <<"a","v","g">>, <<"m","i","n">>, <<"m","a","x">>}
    /\ \A j \in 1..(i - 1) : ValidAgg(DraftedAggs[j])

TemporalKinds == {"temporal", "period_q1", "period_q2", "period_q3", "period_q4"}

\* the texts of a filter value: itself, or each element of a list
ValueTexts(val) ==
    IF val.k = "list" THEN {PyStr(val.l[i]) : i \in DOMAIN val.l} ELSE {PyStr(val)}

\* the value holds a year (YEAR_RE) or a quarter tag (_Q_RE, quarter read as q)
LooksTemporal(val) ==
    \E s \in ValueTexts(val) :
        YEAR_RE(s) \/ _Q_RE(Replace(s, <<"q","u","a","r","t","e","r">>, <<"q">>)) # 0

\* filter f of the draft is to be retained
Retained(f) ==
    /\ f.col_id \in ColumnIds
    /\ LooksTemporal(Get(f, "value", NoneV)) => kinds[headers[f.col_id + 1]] \in TemporalKinds

\* the retained filters in their original order, each with its column name
ExpectedFilters ==
    LET kept == SelectSeq(DraftedFilters, Retained)
    IN  [i \in DOMAIN kept |-> Put(kept[i], "column", headers[kept[i].col_id + 1])]

\* every filter of the draft has an allowed operator and a column id, and
\* nothing else of the draft fails validation
FiltersDecide ==
    /\ Validated
    /\ "error" \notin DOMAIN DraftedPlan
    /\ \A i \in DOMAIN DraftedAggs : ValidAgg(DraftedAggs[i])
    /\ \A i \in DOMAIN DraftedFilters :
          /\ "col_id" \in DOMAIN DraftedFilters[i]
          /\ "op" \in DOMAIN DraftedFilters[i] /\ DraftedFilters[i].op \in ALLOWED_OPS

NineOps == {">=", "<=", ">", "<", "=", "!=", "in", "between", "contains"}

\* C10: when validation reaches the filters (nothing else of the draft fails
\* and every filter has a column id), it returns the reason bad_filter_op if
\* and only if a filter has an op that is not one of the nine operators.
C10_NineOperators ==
    (/\ Validated
     /\ "error" \notin DOMAIN DraftedPlan
     /\ \A i \in DOMAIN DraftedAggs : ValidAgg(DraftedAggs[i])
     /\ \A i \in DOMAIN DraftedFilters : "col_id" \in DOMAIN DraftedFilters[i]) =>
        (validations[1].reason = <<"b","a","d","_","f","i","l","t","e","r","_","o","p">>
            <=> \E i \in DOMAIN DraftedFilters : Get(DraftedFilters[i], "op", "") \notin NineOps)

\* the drafted group_by and the headers of its ids that resolve, in order
DraftedGroupBy == Get(DraftedPlan, "group_by", <<>>)
IsColumnId(cid) == cid \in ColumnIds
ResolvedGroupBy ==
    LET kept == SelectSeq(DraftedGroupBy, IsColumnId)
    IN  [i \in DOMAIN kept |-> headers[kept[i] + 1]]

\* _validate_and_normalize has been called on the plan made of a JSON draft
ValidationCalled ==
    /\ "parses" \in DOMAIN llm_plan /\ llm_plan.parses
    /\ pc \notin {"start", "routed", "picked", "schema", "planned"}

\* filter f of the draft has a column id and is to be retained
RetainedIfResolved(f) == "col_id" \in DOMAIN f /\ Retained(f)

\* C11: when nothing else of the draft fails validation and every filter has
\* an allowed operator, a group_by id that resolves to no column and a filter
\* whose column id is absent or resolves to no column make validation
\* neither fail nor raise: validation returns ok, and the group_by and the
\* filters it leaves are the remaining entries in their original order.
C11_UnresolvedDropped ==
    (/\ ValidationCalled
     /\ "error" \notin DOMAIN DraftedPlan
     /\ \A i \in DOMAIN DraftedAggs : ValidAgg(DraftedAggs[i])
     /\ \A i \in DOMAIN DraftedFilters :
           "op" \in DOMAIN DraftedFilters[i] /\ DraftedFilters[i].op \in ALLOWED_OPS) =>
        /\ raised = ""
        /\ validations # <<>> /\ validations[1].ok
        /\ pc = "validated" =>
              /\ plan.group_by \in {<<>>, ResolvedGroupBy}
              /\ LET kept == SelectSeq(DraftedFilters, RetainedIfResolved)
                 IN  plan.filters =
                        [i \in DOMAIN kept |-> Put(kept[i], "column", headers[kept[i].col_id + 1])]

\* C12: once analyze_table has run the auto-synthesis block, the second
\* _validate_and_normalize has returned ok, so that the plan _build_sql
\* receives is one whose most recent validation succeeded.
C12_FallbackValid ==
    (fallback /\ pc \in {"ready", "compiled", "executed", "analyzed", "done"}) =>
        /\ Len(validations) = 2
        /\ validations[2].ok

\* the draft whose only entry is a filter with an operator outside ALLOWED_OPS
BadOpDraft == [filters |-> <<[op |-> "??"]>>]
BadOpDrafted == "parses" \in DOMAIN llm_plan /\ llm_plan.parses /\ DraftedPlan = BadOpDraft

\* the question has no detected intent or the table has no column of kind number
NoNumericIntent ==
    \/ _detect_intent(question) = <<>>
    \/ \A i \in DOMAIN headers : kinds[headers[i]] # "number"

\* C13: for the draft {"filters": [{"op": "??"}]} the first validation returns
\* (false, 'bad_filter_op') and the auto-synthesis block runs; when the
\* question has no detected intent or the table has no number column, the
\* synthesized plan's only aggregate is the row count, nothing is raised, and
\* the plan compiles and is executed
C13_BadFilterOpCounted ==
    BadOpDrafted =>
        /\ validations # <<>> => validations[1] = [ok |-> FALSE, reason |-> <<"b","a","d","_","f","i","l","t","e","r","_","o","p">>]
        /\ pc = "validated" => NeedsFallback
        /\ NoNumericIntent =>
              /\ raised = ""
              /\ pc \in {"ready", "compiled", "executed", "analyzed", "done"} =>
                    /\ fallback
                    /\ plan.aggregates = <<CountRows>>
                    /\ _build_sql(plan).raised = ""
              /\ pc \in {"compiled", "executed", "analyzed", "done"} => Compiled
              /\ pc \in {"executed", "analyzed", "done"} => rows # <<>>

C13_Witness ==
    /\ BadOpDrafted /\ NoNumericIntent /\ pc = "done" /\ raised = ""
    /\ fallback /\ plan.aggregates = <<CountRows>> /\ Compiled
    /\ \E i \in DOMAIN headers : kinds[headers[i]] = "number"

\* the question is a scalar ask: it holds a scalar word and none of ' per ',
\* ' by ', ' each '
ScalarWords ==
    {<<"m","a","x">>, <<"m","a","x","i","m","u","m">>, <<"m","i","n">>, <<"m","i","n","i","m","u","m">>, <<"s","u","m">>, <<"t","o","t","a","l">>, <<"a","v","g">>, <<"a","v","e","r","a","g","e">>, <<"m","e","a","n">>,
     <<"c","o","u","n","t">>, <<"t","o","p"," ","1">>, <<"l","a","r","g","e","s","t">>, <<"s","m","a","l","l","e","s","t">>}
PerGroupWords == {<<" ","p","e","r"," ">>, <<" ","b","y"," ">>, <<" ","e","a","c","h"," ">>}
ScalarAsk == AnyIn(ScalarWords, LowerStr(question)) /\ ~AnyIn(PerGroupWords, LowerStr(question))

\* the most recent validation accepted a plan with at least one aggregate
AcceptedAggregates ==
    /\ pc \in {"validated", "ready"} /\ Accepted
    /\ Get(plan, "aggregates", <<>>) # <<>>

\* C14: for an accepted plan with at least one aggregate, a scalar ask forces
\* group_by = [], order_by = [first aggregate's alias, desc] and limit = 1;
\* with per-group language or no scalar word the accepted draft keeps its
\* resolved group_by, and its limit and order_by are the drafted ones
C14_ScalarOverride ==
    AcceptedAggregates =>
        /\ ScalarAsk =>
              /\ plan.group_by = <<>>
              /\ plan.order_by = <<[column |-> plan.aggregates[1]["as"], dir |-> <<"d","e","s","c">>]>>
              /\ plan.limit = 1
        /\ (~ScalarAsk /\ ~fallback) =>
              /\ plan.group_by = ResolvedGroupBy
              /\ ("limit" \in DOMAIN plan) = ("limit" \in DOMAIN DraftedPlan)
              /\ "limit" \in DOMAIN plan => plan.limit = DraftedPlan.limit
              /\ ("order_by" \in DOMAIN plan) = ("order_by" \in DOMAIN DraftedPlan)
              /\ "order_by" \in DOMAIN plan => plan.order_by = DraftedPlan.order_by

C14_Witness ==
    /\ AcceptedAggregates /\ ScalarAsk /\ ~fallback
    /\ ResolvedGroupBy # <<>> /\ plan.group_by = <<>>
    /\ Get(DraftedPlan, "limit", 0) = 3 /\ plan.limit = 1

(***************************************************************************)
(* The end-to-end example: a workbook whose one table has the columns      *)
(* Region, Revenue_Q1, Revenue_Q2, stored under the names normalize_header *)
(* writes                                                                  *)
(***************************************************************************)
RevenueHeaders == <<<<"r","e","g","i","o","n">>, <<"r","e","v","e","n","u","e","_","q","1">>, <<"r","e","v","e","n","u","e","_","q","2">>>>
RevenueRows ==
    << RowOf(RevenueHeaders, <<<<"e","a","s","t">>, <<"1","2","3","4",".","0","0">>, <<"9","0">>>>),
       RowOf(RevenueHeaders, <<<<"w","e","s","t">>, <<"1","5">>, <<"7",".","5">>>>) >>
RevenueQuestion == <<"W","h","a","t"," ","i","s"," ","t","h","e"," ","t","o","t","a","l"," ","r","e","v","e","n","u","e"," ","i","n"," ","Q","1","?">>
RevenueQuestions == {RevenueQuestion, <<"w","h","y"," ","t","o","t","a","l"," ","a","m","t"," ","q","1">>, <<"e","x","p","l","a","i","n"," ","i","n","s","i","g","h","t","s">>}

InitRevenue ==
    /\ pc = "start"
    /\ question \in RevenueQuestions
    /\ vs_docs = {[type |-> "table_schema", file_key |-> DocA, table_index |-> 0]}
    /\ tables_catalog = (KeySales :> [column_names |-> RevenueHeaders, n_rows |-> Len(RevenueRows)])
    /\ table_rows = (KeySales :> RevenueRows)
    /\ t = ""
    /\ fk = <<>>
    /\ ti = 0
    /\ headers = <<>>
    /\ samples = <<>>
    /\ kinds = <<>>
    /\ llm_plan = <<>>
    /\ plan = <<>>
    /\ validations = <<>>
    /\ fallback = FALSE
    /\ sql = <<>>
    /\ params = <<>>
    /\ rows = <<>>
    /\ analysis = <<>>
    /\ result = <<>>
    /\ raised = ""
    /\ _engine = 0
    /\ _vectorstore = 0
    /\ created = [engine |-> 0, vectorstore |-> 0]
    /\ thread = [th \in 1..NThreads |-> [pc |-> "get_engine", engine |-> 0, vectorstore |-> 0]]

SpecRevenue == InitRevenue /\ [][Next]_vars

\* the question of the example has been asked of the revenue table
RevenueAsked == question = RevenueQuestion /\ headers = RevenueHeaders

\* the plan holds a single SUM aggregate over revenue_q1
SumOfRevenueQ1 ==
    /\ Len(Get(plan, "aggregates", <<>>)) = 1
    /\ plan.aggregates[1].func = <<"s","u","m">>
    /\ plan.aggregates[1].col_id = 1

NoRowsAnswer == <<"N","o"," ","r","o","w","s"," ","m","a","t","c","h","e","d"," ","t","h","e"," ","c","o","n","d","i","t","i","o","n","s",".">>

\* the compiled statement was executed and returned no row
EmptyResult == Compiled /\ pc \in {"executed", "analyzed", "done"} /\ rows = <<>>

\* C16: when the executed statement returns an empty result set, nothing is
\* raised and the answer of analyze_table is "No rows matched the
\* conditions."; the summary of an empty result set is that text for every
\* plan the pipeline holds
C16_EmptyResultAnswer ==
    /\ EmptyResult =>
          /\ raised = ""
          /\ _summarize_scalar(plan, rows) = <<>>
          /\ _summarize_grouped(plan, rows) = <<>>
          /\ pc \in {"analyzed", "done"} =>
                analysis = [type |-> "analytical", answer |-> NoRowsAnswer]
    /\ Summary(plan, <<>>) = NoRowsAnswer

C16_Witness ==
    /\ EmptyResult /\ pc = "done" /\ t = "analytical"
    /\ result = [type |-> "analytical", answer |-> NoRowsAnswer]

TypeNames == {"analytical", "hybrid", "text"}

\* an aggregation, comparison, number, quarter or top-K cue is in the question
CueFired ==
    LET ql == LowerStr(question)
    IN  \/ AnyIn(agg_words, ql) \/ AnyIn(analytic_phrases, ql)
        \/ AnyIn(compare_words, ql)
        \/ number_like(ql) \/ quarter_like(ql) \/ topk_like(ql)

\* the insight/interpret rule applies to the question
InsightFired == Contains(LowerStr(question), <<"i","n","s","i","g","h","t">>) \/ Contains(LowerStr(question), <<"i","n","t","e","r","p","r","e","t">>)

\* the question is classified without the collaborator
RuleClassified == Strip(question) = <<>> \/ CueFired \/ InsightFired

\* C18: detect_type returns one of 'analytical', 'hybrid', 'text' for every
\* question and every response of the collaborator; the collaborator is asked
\* only for a non-blank question in which no cue and no insight/interpret
\* rule fired, and a rule-classified question has the same type whatever the
\* collaborator would answer.  The question never changes and t is assigned
\* by detect_type only, so the question is examined where the request
\* arrives and t where detect_type has returned.
C18_RuleClassification ==
    /\ pc = "start" =>
          /\ \A c \in ClassifyAnswers : detect_type(question, c) \in TypeNames
          /\ RuleType(question) = "llm" => ~RuleClassified
          /\ RuleClassified =>
                \A c \in ClassifyAnswers : detect_type(question, c) = RuleType(question)
    /\ pc # "start" => t \in TypeNames
    /\ (pc = "routed" /\ RuleClassified) => t = RuleType(question)

C18_Witness ==
    /\ pc = "routed" /\ RuleClassified /\ t = "analytical"
    /\ \E c \in ClassifyAnswers : LlmType(c) = "hybrid"

\* C19: every table ingestion has written to the catalog has a table_schema
\* record for its (file_key, table_index) in the vector store, so _pick_table
\* fails with 'No candidate tables found.' only when no table was ingested
C19_SchemaRecorded ==
    /\ \A key \in DOMAIN tables_catalog :
          [type |-> "table_schema", file_key |-> key[1], table_index |-> key[2]] \in vs_docs
    /\ (pc = "raised" /\ raised = "ValueError") => DOMAIN tables_catalog = {}

\* the checks of the aggregates loop, as the claim words them
BadFunc(a) == "func" \notin DOMAIN a \/ a.func \notin {<<"s","u","m">>, <<"a","v","g">>, <<"c","o","u","n","t">>, <<"m","i","n">>, <<"m","a","x">>}
NoColumnId(a) == "col_id" \notin DOMAIN a \/ a.col_id = JsonNull
Offending(a) ==
    \/ BadFunc(a)
    \/ a.func # <<"c","o","u","n","t">> /\ (NoColumnId(a) \/ ~IsNumberColumn(a.col_id))
ExpectedReason(a) ==
    IF BadFunc(a) THEN <<"b","a","d","_","a","g","g","_","f","u","n","c">>
    ELSE IF NoColumnId(a) THEN <<"m","i","s","s","i","n","g","_","a","g","g","_","c","o","l","_","i","d">>
    ELSE <<"a","g","g","_","o","n","_","n","o","n","_","n","u","m","e","r","i","c",":">> \o (IF a.col_id \in ColumnIds THEN headers[a.col_id + 1] ELSE <<"N","o","n","e">>)

\* aggregate i of the draft is the first offending one
FirstOffending(i) ==
    /\ i \in DOMAIN DraftedAggs
    /\ Offending(DraftedAggs[i])
    /\ \A j \in 1..(i - 1) : ~Offending(DraftedAggs[j])

\* C20: when the drafted plan has no "error" entry, the first validation
\* fails at the first offending aggregate, raising nothing: 'bad_agg_func'
\* for a func outside {sum, avg, count, min, max}, 'missing_agg_col_id' for a
\* non-count aggregate with no column id, 'agg_on_non_numeric:<name>' for a
\* non-count aggregate whose column id is not a number column
C20_FirstOffendingAggregate ==
    \A i \in 1..(MaxAggs + 1) :
        (ValidationCalled /\ "error" \notin DOMAIN DraftedPlan /\ FirstOffending(i)) =>
            /\ raised # "TypeError"
            /\ validations # <<>>
            /\ validations[1] = [ok |-> FALSE, reason |-> ExpectedReason(DraftedAggs[i])]

\* the alias validation gives aggregate a of the draft
ExpectedAlias(a) ==
    IF Get(a, "as", <<>>) # <<>> THEN a["as"]
    ELSE IF a.func = <<"c","o","u","n","t">> THEN <<"c","o","u","n","t","_","r","o","w","s">>
    ELSE a.func \o <<"_">> \o headers[a.col_id + 1]

\* C21: when the latest validation returned ok, every aggregate of the plan
\* has a non-empty alias; for an accepted draft it is the drafted alias when
\* one was given, otherwise <func>_<column name> for a non-count aggregate and
\* count_rows for a count aggregate
C21_AliasesSet ==
    (pc \in {"validated", "ready"} /\ Accepted) =>
        /\ \A k \in DOMAIN Get(plan, "aggregates", <<>>) : Get(plan.aggregates[k], "as", <<>>) # <<>>
        /\ ~fallback =>
              /\ Len(Get(plan, "aggregates", <<>>)) = Len(DraftedAggs)
              /\ \A k \in DOMAIN DraftedAggs : plan.aggregates[k]["as"] = ExpectedAlias(DraftedAggs[k])

C21_Witness ==
    /\ pc = "validated" /\ Accepted /\ ~fallback /\ Len(DraftedAggs) = 2
    /\ "as" \notin DOMAIN DraftedAggs[1] /\ DraftedAggs[1].func = <<"c","o","u","n","t">>
    /\ "as" \in DOMAIN DraftedAggs[2]
    /\ plan.aggregates[1]["as"] = <<"c","o","u","n","t","_","r","o","w","s">>

\* column i is a number column of the resolved table
NumberHeader(i) == i \in DOMAIN headers /\ kinds[headers[i]] = "number"

\* column i has the highest (token-overlap, quarter-bonus) score among the
\* number columns, the first such column in header order
HighestScore(i) ==
    LET score(j) == NumericScore(headers[j], question, _period_tag(question))
    IN  /\ NumberHeader(i)
        /\ \A j \in DOMAIN headers : NumberHeader(j) => ~ScoreGreater(score(j), score(i))
        /\ \A j \in 1..(i - 1) : NumberHeader(j) => ScoreGreater(score(i), score(j))

\* the auto-synthesis block has run (to its end or to an exception)
Synthesized == fallback /\ headers # <<>> /\ kinds # <<>>

\* C22: once the auto-synthesis block has run the plan has exactly one
\* aggregate, no filters and no group_by; the aggregate is the row count when
\* the intent is count, when there is no intent or when no column is of kind
\* number, and otherwise the detected intent over the number column with the
\* highest score
C22_SynthesizedPlan ==
    Synthesized =>
        /\ Len(Get(plan, "aggregates", <<>>)) = 1
        /\ Get(plan, "filters", <<>>) = <<>>
        /\ Get(plan, "group_by", <<>>) = <<>>
        /\ LET a == plan.aggregates[1]
               intent == _detect_intent(question)
           IN  IF intent \in {<<>>, <<"c","o","u","n","t">>} \/ ~\E i \in DOMAIN headers : NumberHeader(i)
               THEN a.func = <<"c","o","u","n","t">> /\ a["as"] = <<"c","o","u","n","t","_","r","o","w","s">>
               ELSE /\ a.func = intent
                    /\ HighestScore(a.col_id + 1)

\* C23: past the header lookup the steps of analyze_table occur in the order
\* draft, validate, optional fallback with a second validation, compile,
\* execute, summarize, each at most once: a draft is made only when none
\* exists, a validation is recorded only after the draft and before any
\* statement, the fallback runs once and before the compilation, a statement
\* is compiled only when none exists, it is executed only right after its
\* compilation and summarized only right after its execution
C23_PipelineOrder ==
    [][/\ (pc' = "planned") =>
              /\ pc = "schema" /\ DOMAIN llm_plan = {} /\ DOMAIN llm_plan' # {}
              /\ validations = <<>> /\ ~fallback /\ sql = <<>>
       /\ (validations' # validations) =>
              /\ DOMAIN llm_plan # {} /\ llm_plan' = llm_plan /\ sql = <<>>
              /\ Len(validations') = Len(validations) + 1
              /\ IF validations = <<>> THEN pc = "planned" /\ pc' = "validated" /\ ~fallback'
                 ELSE pc = "validated" /\ pc' = "ready" /\ ~fallback /\ fallback' /\ Len(validations) = 1
       /\ (fallback' # fallback) => pc = "validated" /\ fallback' /\ sql = <<>>
       /\ (sql' # sql \/ pc' = "compiled") =>
              /\ sql = <<>> /\ sql' # <<>> /\ pc' = "compiled"
              /\ pc = (IF fallback THEN "ready" ELSE "validated")
              /\ validations # <<>> /\ plan' = plan /\ llm_plan' = llm_plan
       /\ (pc' = "executed") => pc = "compiled" /\ sql' = sql /\ plan' = plan
       /\ (pc' = "analyzed" /\ headers # <<>>) =>
              pc = "executed" /\ DOMAIN analysis = {} /\ sql' = sql /\ rows' = rows
       /\ (pc \in {"analyzed", "done", "raised"}) =>
              UNCHANGED <<llm_plan, plan, validations, fallback, sql, params, rows, analysis>>
      ]_vars

C23_Witness ==
    /\ pc = "analyzed" /\ fallback /\ Len(validations) = 2
    /\ ~validations[1].ok /\ validations[2].ok
    /\ sql # <<>> /\ rows # <<>> /\ DOMAIN analysis # {}

\* the statement was executed and its result summarized
Summarized == pc = "analyzed" /\ Compiled

\* the value of the first aggregate in the first row is not null
FirstValueSet ==
    /\ rows # <<>> /\ Get(plan, "aggregates", <<>>) # <<>>
    /\ Get(rows[1], plan.aggregates[1]["as"], NoneV) # NoneV

\* the scalar sentence for the first aggregate
ScalarSentence ==
    PrettyFn(plan.aggregates[1].func) \o <<" ","o","f"," ">> \o Humanize(ColumnOrRows(plan.aggregates[1]))
    \o <<":"," ">> \o _format_number(rows[1][plan.aggregates[1]["as"]])

\* the answer is the heading "Top results:" and one line for each of the
\* first MaxLines rows
GroupedList ==
    /\ SubSeq(analysis.answer, 1, 12) = <<"T","o","p"," ","r","e","s","u","l","t","s",":">>
    /\ Len(SelectSeq(analysis.answer, LAMBDA c : c = "\n")) = Min(Len(rows), MaxLines)

\* the branches after the scalar one, in their order
LaterBranches ==
    IF rows # <<>> /\ Get(plan, "group_by", <<>>) # <<>> THEN GroupedList
    ELSE IF rows # <<>> /\ <<"c","o","u","n","t","_","r","o","w","s">> \in DOMAIN rows[1]
    THEN /\ SubSeq(analysis.answer, 1, 6) = <<"F","o","u","n","d"," ">>
         /\ SubSeq(analysis.answer, Len(analysis.answer) - 5, Len(analysis.answer)) = <<" ","r","o","w","s",".">>
    ELSE analysis.answer = NoRowsAnswer

\* C24 as stated: the scalar sentence is rendered only when the result is
\* non-grouped and exactly one aggregate was requested, then the grouped
\* list, then 'Found N rows.', then 'No rows matched the conditions.'
C24_ExactlyOneAggregate ==
    Summarized =>
        IF Get(plan, "group_by", <<>>) = <<>> /\ Len(Get(plan, "aggregates", <<>>)) = 1 /\ FirstValueSet
        THEN analysis.answer = ScalarSentence
        ELSE LaterBranches

\* C24 amended: the scalar sentence is rendered when the result is
\* non-grouped, the plan has at least one aggregate and the first aggregate's
\* value in the first row is not null; then a list of at most 5 lines when
\* the plan is grouped and rows were returned; then 'Found N rows.' when the
\* first row carries count_rows; otherwise 'No rows matched the conditions.'
C24_FirstAggregateSentence ==
    Summarized =>
        IF Get(plan, "group_by", <<>>) = <<>> /\ FirstValueSet
        THEN analysis.answer = ScalarSentence
        ELSE LaterBranches

C24_Witness ==
    /\ Summarized /\ Get(plan, "group_by", <<>>) = <<>> /\ FirstValueSet
    /\ Len(plan.aggregates) = 2
    /\ analysis.answer = ScalarSentence

\* the single SUM over revenue_q1 returned one row holding 1234.00
RevenueSummed ==
    /\ RevenueAsked /\ pc = "analyzed" /\ SumOfRevenueQ1
    /\ Len(rows) = 1 /\ Get(rows[1], plan.aggregates[1]["as"], NoneV) = NumV(123400)

KindsHeaders == <<<<"q","2">>, <<"s","a","l","e","s","_","q","3">>, <<"t","o","d","a","y">>, <<"a","m","o","u","n","t">>, <<"s","e","e","n">>, <<"m","e","m","o">>, <<"b","l","a","n","k">>>>
KindsRows ==
    << RowOf(KindsHeaders, <<<<"5">>, <<"1","0">>, <<"1">>, <<"1",".","5">>, <<"2","0","2","4","-","0","1","-","0","5">>, <<"2","0","2","4","-","0","1","-","0","5">>, <<>>>>),
       RowOf(KindsHeaders, <<<<"6">>, <<"2","0">>, <<"2">>, <<"2">>, <<"1","2"," ","j","a","n">>, <<"x">>, <<>>>>),
       RowOf(KindsHeaders, <<<<"7">>, <<"3","0">>, <<"3">>, <<"3">>, <<"n","/","a">>, <<"7">>, <<>>>>),
       RowOf(KindsHeaders, <<<<"8">>, <<"4","0">>, <<"4">>, <<"4">>, <<"t","b","d">>, <<"y">>, <<>>>>),
       RowOf(KindsHeaders, <<<<"9">>, <<"5","0">>, <<"5">>, <<"5">>, <<"n","o","n","e">>, <<"z">>, <<>>>>) >>

InitKinds ==
    /\ pc = "start"
    /\ question = <<"a","m","t"," ","b","y"," ","r","e","g","i","o","n">>
    /\ vs_docs = {[type |-> "table_schema", file_key |-> DocA, table_index |-> 0]}
    /\ tables_catalog = (KeySales :> [column_names |-> KindsHeaders, n_rows |-> Len(KindsRows)])
    /\ table_rows = (KeySales :> KindsRows)
    /\ t = ""
    /\ fk = <<>>
    /\ ti = 0
    /\ headers = <<>>
    /\ samples = <<>>
    /\ kinds = <<>>
    /\ llm_plan = <<>>
    /\ plan = <<>>
    /\ validations = <<>>
    /\ fallback = FALSE
    /\ sql = <<>>
    /\ params = <<>>
    /\ rows = <<>>
    /\ analysis = <<>>
    /\ result = <<>>
    /\ raised = ""
    /\ _engine = 0
    /\ _vectorstore = 0
    /\ created = [engine |-> 0, vectorstore |-> 0]
    /\ thread = [th \in 1..NThreads |-> [pc |-> "get_engine", engine |-> 0, vectorstore |-> 0]]

SpecKinds == InitKinds /\ [][Next]_vars

\* the kinds of the resolved table have been inferred
KindsInferred == headers # <<>> /\ DOMAIN kinds = Range(headers)

\* the sampled non-empty values of column h
SampledValues(h) ==
    Take(SelectSeq([i \in DOMAIN samples |-> Get(samples[i], h, <<>>)], NonEmpty), KindVals)

\* how many of them look like a date
DateLikeCount(h) ==
    Cardinality({i \in DOMAIN SampledValues(h) : _looks_like_date(SampledValues(h)[i])})

\* the leftmost place where the header holds q followed by 1-4, 0 when none
QuarterAnywhere(h) ==
    LET at(i) == LowerCh(h[i]) = "q" /\ h[i + 1] \in QuarterDigits
        hit   == {i \in 1..(Len(h) - 1) : at(i)}
    IN  IF hit = {} THEN 0 ELSE CHOOSE i \in hit : \A j \in hit : i <= j

\* the leftmost place where the header holds q followed by 1-4 as a word of
\* its own (no letter, digit or underscore on either side), 0 when none
QuarterWord(h) ==
    LET at(i) == /\ LowerCh(h[i]) = "q" /\ h[i + 1] \in QuarterDigits
                 /\ (i = 1 \/ ~IsWordCh(h[i - 1]))
                 /\ (i + 2 > Len(h) \/ ~IsWordCh(h[i + 2]))
        hit   == {i \in 1..(Len(h) - 1) : at(i)}
    IN  IF hit = {} THEN 0 ELSE CHOOSE i \in hit : \A j \in hit : i <= j

\* the kind of header h by the first matching rule, the quarter rule having
\* matched at qpos and the date rule requiring enoughDates
KindByRules(h, qpos, enoughDates) ==
    IF qpos # 0 THEN "period_q" \o h[qpos + 1]
    ELSE IF \E w \in {<<"d","a","t","e">>, <<"y","e","a","r">>, <<"m","o","n","t","h">>, <<"q","u","a","r","t","e","r">>, <<"w","e","e","k">>, <<"d","a","y">>} : Contains(LowerStr(h), w)
    THEN "temporal"
    ELSE IF SampledValues(h) # <<>> /\ \A i \in DOMAIN SampledValues(h) : _looks_like_number(SampledValues(h)[i])
    THEN "number"
    ELSE IF enoughDates THEN "temporal"
    ELSE "text"

\* C25 as stated: each header gets the kind of the first matching rule in the
\* order: q followed by 1-4 anywhere in the header gives period_qN; a
\* temporal word in the header gives temporal; all sampled values numeric
\* gives number; at least half and at least 2 sampled values date-like gives
\* temporal; otherwise text
C25_ContainsQuarter ==
    KindsInferred =>
        \A h \in Range(headers) :
            kinds[h] = KindByRules(h, QuarterAnywhere(h),
                                   DateLikeCount(h) >= 2 /\ 2 * DateLikeCount(h) >= Len(SampledValues(h)))

\* C25: each header gets exactly one kind, that of the first matching rule in
\* the order: q followed by 1-4 standing as a word of its own in the header
\* gives period_qN; a temporal word in the header gives temporal; all sampled
\* non-empty values numeric gives number; at least 2 and at least the
\* rounded-down half of the sampled values date-like gives temporal;
\* otherwise text.  A column with no sampled values is never number.
C25_FirstMatchingRule ==
    KindsInferred =>
        \A h \in Range(headers) :
            /\ kinds[h] = KindByRules(h, QuarterWord(h),
                                      DateLikeCount(h) >= Max(2, Len(SampledValues(h)) \div 2))
            /\ SampledValues(h) = <<>> => kinds[h] # "number"

C25_Witness ==
    /\ KindsInferred /\ headers = KindsHeaders
    /\ kinds[<<"q","2">>] = "period_q2"
    /\ kinds[<<"s","a","l","e","s","_","q","3">>] = "number"
    /\ kinds[<<"t","o","d","a","y">>] = "temporal"
    /\ kinds[<<"s","e","e","n">>] = "temporal"
    /\ kinds[<<"m","e","m","o">>] = "text"
    /\ kinds[<<"b","l","a","n","k">>] = "text"

\* a statement was compiled from the plan of the auto-synthesis
CompiledFromFallback == fallback /\ Compiled /\ Get(plan, "aggregates", <<>>) # <<>>

\* C26: when the auto-synthesis has replaced the drafted plan, nothing of the
\* draft's order_by or limit reaches the compiled statement: its ORDER BY is
\* absent or names the alias of the synthesized aggregate, and its LIMIT is
\* absent or 1
C26_DraftOrderingDropped ==
    CompiledFromFallback =>
        \A i \in DOMAIN sql :
            /\ sql[i] = Lit(" ORDER BY ") => sql[i + 1] = Txt(_qid(plan.aggregates[1]["as"]))
            /\ sql[i] = Lit(" LIMIT ") => sql[i + 1] = Num(1)

\* the pieces of a statement that mark one compiled filter predicate
PredicateMarks ==
    {Lit(" ILIKE "), Lit(" IN ("), Lit(" BETWEEN ")}
    \cup {Lit(_op_sql(op)) : op \in {">=", "<=", ">", "<", "=", "!="}}

\* how many filter predicates the compiled statement holds
CompiledPredicates == Cardinality({i \in DOMAIN sql : sql[i] \in PredicateMarks})

\* C27: every filter the validator retained contributes exactly one predicate
\* to the WHERE clause of the compiled statement; none is omitted
C27_RetainedFiltersCompiled ==
    (Compiled /\ Accepted) => CompiledPredicates = Len(Get(plan, "filters", <<>>))

\* C28: a compiled statement holds a LIMIT clause only with a positive
\* integer; a plan limit that is absent, zero or negative never produces a
\* LIMIT clause with a value below 1
C28_LimitPositive ==
    Compiled =>
        \A i \in DOMAIN sql :
            sql[i] = Lit(" LIMIT ") => sql[i + 1].k = "num" /\ sql[i + 1].n >= 1

(***************************************************************************)
(* Repeated calls of persist_docling_tables                                *)
(***************************************************************************)
\* persist_docling_tables(doc, file_key=..., vectorstore=...) called for the
\* notes document, the converter having extracted n rows of its table
PersistTables ==
    /\ \E n \in 0..Len(NotesDocument.tables[2].rows), vectorstore \in BOOLEAN :
        LET doc == [NotesDocument EXCEPT !.tables[2].rows = SubSeq(@, 1, n)]
            written == persist_docling_tables(doc, doc.file_key, vectorstore)
        IN  /\ vs_docs' = vs_docs \cup written.schema
            /\ tables_catalog' = written.catalog
            /\ table_rows' = written.rows
    /\ UNCHANGED <<pc, question, t, fk, ti, headers, samples, kinds, llm_plan, plan,
                   validations, fallback, sql, params, rows, analysis, result, raised,
                   _engine, _vectorstore, created, thread>>

SpecPersist == Init /\ [][PersistTables]_vars

\* C29: after any sequence of persist_docling_tables calls, repeated calls for
\* the same file_key with a different number of rows included, the n_rows of
\* every catalog record equals the number of table_rows records with its
\* (file_key, table_index)
C29_RowCountMatches ==
    \A key \in DOMAIN tables_catalog :
        tables_catalog[key].n_rows = Len(Get(table_rows, key, <<>>))

(***************************************************************************)
(* Concurrent first calls of get_engine and get_vectorstore                *)
(***************************************************************************)
NextThreads ==
    \E th \in 1..NThreads :
        \/ get_engine(th)
        \/ get_vectorstore(th)

SpecThreads == Init /\ [][NextThreads]_vars

\* C30: under any interleaving of concurrent first calls from several request
\* threads, at most one engine and at most one vector store are created for
\* the process, and every caller receives that same instance
C30_SingleInstances ==
    /\ created.engine <= 1
    /\ created.vectorstore <= 1
    /\ \A a, b \in 1..NThreads :
          /\ (thread[a].engine # 0 /\ thread[b].engine # 0) => thread[a].engine = thread[b].engine
          /\ (thread[a].vectorstore # 0 /\ thread[b].vectorstore # 0)
                => thread[a].vectorstore = thread[b].vectorstore

====
